---- MODULE Spec2Model ----
(***************************************************************************)
(* The printer-booking server: the booking gate POST /api/bookings         *)
(* (server/routes.ts) over the DatabaseStorage collaborator (storage.ts)   *)
(* with the insertBookingSchema of shared/schema.ts, and the other routes  *)
(* that write the tables the gate depends on: PATCH /api/bookings/:id, the *)
(* credential award, the training progress, the management routes behind  *)
(* requireAdmin, and the GET routes that answer with a user's own rows.    *)
(* Of the client, the VideoPlayer component (its handlers, the <video>     *)
(* element's events and its timers) and the Dashboard's computation of     *)
(* canBook and PrinterCard's isBookable.                                   *)
(*                                                                         *)
(* Every `await` of the booking gate, of requireAdmin and of the award is  *)
(* one atomic step; between two steps of one request any step of another   *)
(* request may run (Node's event loop). Times are abstract instants        *)
(* 0..MaxTime; credential-type names are represented by their rank in the  *)
(* database's collation order; a table with a serial id is a sequence      *)
(* indexed by the id, a deleted row leaving its place taken.               *)
(***************************************************************************)
EXTENDS Integers, Sequences, FiniteSets, TLC

\* ---------------------------------------------------------------- bounds
MaxTime == 3
MaxBookings == 2
MaxCredentialRows == 2
MaxNotifications == 2
MaxRows == 3

\* ------------------------------------------------------ program constants
MinDuration == 15
MaxDuration == 480

\* new Date(x) of an absent or unparsable x: the Invalid Date.
InvalidDate == -1

\* server/adminConfig.ts is not part of the sources; the allowlist holds
\* the email of one user.
ADMIN_EMAILS == {"admin@makerspace"}

\* ------------------------------------------------------------ input sets
Users == {"u1", "u2"}
\* The ids upsertUser gives to the users of a CSV import: csv_<email>.
ImportedIds == {"csv_guest@makerspace"}
UserIds == Users \cup ImportedIds
Printers == {1, 2}
Times == 0 .. MaxTime
Durations == {MinDuration - 5, MinDuration, MaxDuration, MaxDuration + 20}
Slots == {1, 2}
Names == {1, 2}
TypeIds == {1, 2}

NoBody == [printerId |-> 0, startTime |-> 0, endTime |-> 0, duration |-> 0,
           plaConfirmed |-> FALSE]
NoBooking == [id |-> 0, userId |-> "", printerId |-> 0, startTime |-> 0,
              endTime |-> 0, duration |-> 0, status |-> "", plaConfirmed |-> FALSE]

\* Request bodies whose printer and window vary: every window of Times with
\* startTime <= endTime (a window may be empty).
SeqBodies == {b \in [printerId : Printers, startTime : Times, endTime : Times,
                     duration : {MinDuration}, plaConfirmed : {TRUE}] :
                b.startTime <= b.endTime}
\* Request bodies whose duration and PLA confirmation vary, on one window.
GateBodies == [printerId : {1}, startTime : {0}, endTime : {1},
               duration : Durations, plaConfirmed : BOOLEAN]
\* Request bodies for two adjacent unit windows of one printer.
RaceBodies == {[printerId |-> 1, startTime |-> t, endTime |-> t + 1,
                duration |-> MinDuration, plaConfirmed |-> TRUE] : t \in {0, 1}}
\* One request body, for the specification in which the ledger changes.
LedgerBodies == [printerId : {1}, startTime : {0}, endTime : {1},
                 duration : {MinDuration}, plaConfirmed : {TRUE}]

\* Request bodies whose startTime is a date or absent/unparsable, with a
\* duration in or below the range.
OutcomeBodies == [printerId : {1}, startTime : {0, InvalidDate}, endTime : {1},
                  duration : {MinDuration - 5, MinDuration},
                  plaConfirmed : {TRUE}]

\* Request bodies for one window on either printer.
PrinterBodies == [printerId : Printers, startTime : {0}, endTime : {1},
                  duration : {MinDuration}, plaConfirmed : {TRUE}]
\* Bodies of PATCH /api/bookings/:id: a status, or another window.
BookingUpdates == {[status |-> "cancelled"], [startTime |-> 1, endTime |-> 2]}
\* Bodies of PATCH /api/printers/:id.
PrinterUpdates == {[status |-> "offline"]}

\* Request bodies for two separate windows on either printer.
MoveBodies == {[printerId |-> p, startTime |-> t, endTime |-> t + 1,
                duration |-> MinDuration, plaConfirmed |-> TRUE] :
                 p \in Printers, t \in {0, 2}}
\* Bodies of PATCH /api/bookings/:id that move a booking: to a printer, or
\* to a window.
MoveUpdates == {[printerId |-> 1], [startTime |-> 0, endTime |-> 1]}

\* Request bodies that also carry a userId, as a client could send them.
ForgedBodies == [printerId : Printers, startTime : {0}, endTime : {1},
                 duration : {MinDuration}, plaConfirmed : {TRUE},
                 userId : Users]

VARIABLES credentialTypes, userCredentials, bookings, notifications, req,
          users, printers, trainingVideos, userVideoProgress, player

vars == <<credentialTypes, userCredentials, bookings, notifications, req,
          users, printers, trainingVideos, userVideoProgress, player>>

\* The tables of the booking store, the notification store and the ledger.
stores == <<bookings, notifications, credentialTypes, userCredentials>>

\* The tables the booking gate neither reads nor writes, and the state of
\* the client's VideoPlayer.
others == <<users, printers, trainingVideos, userVideoProgress, player>>

\* ------------------------------------------------------------- storage

Range(s) == {s[i] : i \in DOMAIN s}

\* getCredentialTypes: SELECT * FROM credential_types ORDER BY name ASC.
getCredentialTypes ==
  LET rows == Range(credentialTypes)
  IN  [i \in 1 .. Len(credentialTypes) |->
         CHOOSE row \in rows :
           Cardinality({o \in rows : o.name < row.name}) = i - 1]

\* getUserCredentials: the rows of user_credentials of one user; the gate
\* reads only their credentialTypeId. userCredentials[u][c] is the number
\* of rows (u, c).
getUserCredentials(userId) ==
  {c \in TypeIds : userCredentials[userId][c] > 0}

\* Mutant: only bookings lying inside the candidate window are found.
getPrinterBookings_contained(printerId, startTime, endTime) ==
  {i \in DOMAIN bookings :
     /\ bookings[i].printerId = printerId
     /\ bookings[i].startTime >= startTime
     /\ bookings[i].endTime <= endTime}

\* Mutant: strict comparisons (gt / lt instead of gte / lte).
getPrinterBookings_strict(printerId, startTime, endTime) ==
  {i \in DOMAIN bookings :
     /\ bookings[i].printerId = printerId
     /\ bookings[i].endTime > startTime
     /\ bookings[i].startTime < endTime}

\* Mutant: the query without eq(bookings.printerId, printerId).
getPrinterBookings_anyPrinter(printerId, startTime, endTime) ==
  {i \in DOMAIN bookings :
     /\ bookings[i].endTime >= startTime
     /\ bookings[i].startTime <= endTime}

\* Mutant: cancelled bookings are left out of the query.
getPrinterBookings_notCancelled(printerId, startTime, endTime) ==
  {i \in DOMAIN bookings :
     /\ bookings[i].printerId = printerId
     /\ bookings[i].status # "cancelled"
     /\ bookings[i].endTime >= startTime
     /\ bookings[i].startTime <= endTime}

\* getPrinterBookings: rows of the printer with endTime >= start and
\* startTime <= end.
getPrinterBookings(printerId, startTime, endTime) ==
  {i \in DOMAIN bookings :
     /\ bookings[i].printerId = printerId
     /\ bookings[i].endTime >= startTime
     /\ bookings[i].startTime <= endTime}

\* Mutant: the schema without .max(480).
insertBookingSchema_noMax(data) ==
  /\ data.duration >= MinDuration
  /\ data.plaConfirmed \in BOOLEAN

\* insertBookingSchema.parse: duration is a number in [15, 480] and
\* plaConfirmed is a boolean. The request bodies drawn here are well-typed
\* in their other columns (an existing printer id, parsable dates).
insertBookingSchema(data) ==
  /\ data.duration >= MinDuration
  /\ data.duration <= MaxDuration
  /\ data.plaConfirmed \in BOOLEAN

\* ------------------------------------------------------------- the gate

\* Mutant: the loop stops after the first listed type.
missingRequired_firstOnly(held, listing) ==
  {i \in DOMAIN listing :
     /\ i = 1
     /\ listing[i].isRequired
     /\ ~ \E c \in held : c = listing[i].id}

\* The credential loop of POST /api/bookings: the positions, in listing
\* order, of the required types that the user's rows do not cover.
missingRequired(held, listing) ==
  {i \in DOMAIN listing :
     /\ listing[i].isRequired
     /\ ~ \E c \in held : c = listing[i].id}

\* Mutant: the message names the first required type, held or not.
firstMissing_firstRequired(held, listing) ==
  LET m == {i \in DOMAIN listing : listing[i].isRequired}
  IN  CHOOSE i \in m : \A j \in m : i <= j

\* The loop returns at the first such position.
firstMissing(held, listing) ==
  LET m == missingRequired(held, listing)
  IN  CHOOSE i \in m : \A j \in m : i <= j

Idle == [pc |-> "idle", route |-> "", userId |-> "", body |-> NoBody,
         held |-> {}, booking |-> NoBooking, status |-> 0, missing |-> 0,
         error |-> "", response |-> <<>>]

Respond(r, code) == [req[r] EXCEPT !.pc = "done", !.status = code]

\* The catch block of POST /api/bookings: an exception named ZodError is
\* answered 400, any other exception 500.
Catch(r, name) ==
  [req[r] EXCEPT !.pc = "done", !.error = name,
                 !.status = IF name = "ZodError" THEN 400 ELSE 500]

\* A request of user u with body b arrives (req.user.claims.sub, req.body).
Arrive(r, u, b) ==
  /\ req[r].pc = "idle"
  /\ req' = [req EXCEPT ![r] = [Idle EXCEPT !.pc = "getUserCredentials",
                                            !.route = "POST /api/bookings",
                                            !.userId = u, !.body = b]]
  /\ UNCHANGED <<credentialTypes, userCredentials, bookings, notifications>>
  /\ UNCHANGED others

\* await storage.getUserCredentials(userId); a rejected promise is caught
\* and answered 500.
GetUserCredentials(r) ==
  /\ req[r].pc = "getUserCredentials"
  /\ \E ok \in BOOLEAN :
       req' = [req EXCEPT ![r] =
                 IF ok
                 THEN [@ EXCEPT !.pc = "getCredentialTypes",
                                !.held = getUserCredentials(req[r].userId)]
                 ELSE Catch(r, "StorageError")]
  /\ UNCHANGED <<credentialTypes, userCredentials, bookings, notifications>>
  /\ UNCHANGED others

\* Mutant: bookingData is validated before the credential loop.
GetCredentialTypes_validateFirst(r) ==
  /\ req[r].pc = "getCredentialTypes"
  /\ \E ok \in BOOLEAN :
       LET listing == getCredentialTypes
           held    == req[r].held
       IN  req' = [req EXCEPT ![r] =
             IF ~ok THEN [req[r] EXCEPT !.pc = "done", !.status = 500]
             ELSE IF ~(/\ req[r].body.duration >= MinDuration
                       /\ req[r].body.duration <= MaxDuration)
             THEN [req[r] EXCEPT !.pc = "done", !.status = 400]
             ELSE IF \E i \in DOMAIN listing :
                       listing[i].isRequired /\ listing[i].id \notin held
             THEN [req[r] EXCEPT !.pc = "done", !.status = 403]
             ELSE [@ EXCEPT !.pc = "getPrinterBookings"]]
  /\ UNCHANGED <<credentialTypes, userCredentials, bookings, notifications>>
  /\ UNCHANGED others

\* Mutant: a rejection for a missing credential records that credential
\* for the user.
GetCredentialTypes_award(r) ==
  /\ req[r].pc = "getCredentialTypes"
  /\ \E ok \in BOOLEAN :
       LET listing == getCredentialTypes
           held    == req[r].held
           lacking == {i \in DOMAIN listing :
                         listing[i].isRequired /\ listing[i].id \notin held}
           first   == CHOOSE i \in lacking : \A j \in lacking : i <= j
       IN  IF ok /\ lacking # {}
           THEN /\ req' = [req EXCEPT ![r] =
                             [@ EXCEPT !.pc = "done", !.status = 403,
                                       !.missing = listing[first].name]]
                /\ userCredentials' =
                     [userCredentials EXCEPT
                        ![req[r].userId][listing[first].id] = 1]
           ELSE /\ req' = [req EXCEPT ![r] =
                             IF ~ok THEN [@ EXCEPT !.pc = "done", !.status = 500]
                             ELSE IF ~(/\ req[r].body.duration >= MinDuration
                                       /\ req[r].body.duration <= MaxDuration)
                             THEN [@ EXCEPT !.pc = "done", !.status = 400]
                             ELSE [@ EXCEPT !.pc = "getPrinterBookings"]]
                /\ UNCHANGED userCredentials
  /\ UNCHANGED <<credentialTypes, bookings, notifications>>
  /\ UNCHANGED others

\* await storage.getCredentialTypes(), the credential loop, and the
\* synchronous construction and validation of bookingData: the argument of
\* insertBookingSchema.parse is built first, and toISOString() of an
\* Invalid Date throws a RangeError before parse runs.
GetCredentialTypes(r) ==
  /\ req[r].pc = "getCredentialTypes"
  /\ \E ok \in BOOLEAN :
       LET listing == getCredentialTypes
           held    == req[r].held
       IN  req' = [req EXCEPT ![r] =
             IF ~ok THEN Catch(r, "StorageError")
             ELSE IF missingRequired(held, listing) # {}
             THEN [Respond(r, 403) EXCEPT
                     !.missing = listing[firstMissing(held, listing)].name]
             ELSE IF InvalidDate \in {req[r].body.startTime, req[r].body.endTime}
             THEN Catch(r, "RangeError")
             ELSE IF ~insertBookingSchema(req[r].body)
             THEN Catch(r, "ZodError")
             ELSE [@ EXCEPT !.pc = "getPrinterBookings"]]
  /\ UNCHANGED <<credentialTypes, userCredentials, bookings, notifications>>
  /\ UNCHANGED others

\* Mutant: a conflict is also recorded as a notification to the requester.
GetPrinterBookings_notify(r) ==
  /\ req[r].pc = "getPrinterBookings"
  /\ \E ok \in BOOLEAN :
       LET b == req[r].body
           conflicts == {i \in DOMAIN bookings :
                           /\ bookings[i].printerId = b.printerId
                           /\ bookings[i].endTime >= b.startTime
                           /\ bookings[i].startTime <= b.endTime}
       IN  IF ok /\ conflicts # {}
           THEN /\ req' = [req EXCEPT ![r] = [@ EXCEPT !.pc = "done", !.status = 409]]
                /\ notifications' = Append(notifications,
                                      [userId |-> req[r].userId,
                                       title |-> "Booking Rejected"])
           ELSE /\ req' = [req EXCEPT ![r] =
                             IF ~ok THEN [@ EXCEPT !.pc = "done", !.status = 500]
                             ELSE [@ EXCEPT !.pc = "createBooking"]]
                /\ UNCHANGED notifications
  /\ UNCHANGED <<credentialTypes, userCredentials, bookings>>
  /\ UNCHANGED others

\* Mutant: a printer that is not available cannot be booked.
GetPrinterBookings_available(r) ==
  /\ req[r].pc = "getPrinterBookings"
  /\ \E ok \in BOOLEAN :
       LET b == req[r].body
           conflicts == {i \in DOMAIN bookings :
                           /\ bookings[i].printerId = b.printerId
                           /\ bookings[i].endTime >= b.startTime
                           /\ bookings[i].startTime <= b.endTime}
       IN  req' = [req EXCEPT ![r] =
             IF ~ok THEN [@ EXCEPT !.pc = "done", !.status = 500,
                                   !.error = "StorageError"]
             ELSE IF conflicts # {} \/ printers[b.printerId].status # "available"
             THEN [@ EXCEPT !.pc = "done", !.status = 409]
             ELSE [@ EXCEPT !.pc = "createBooking"]]
  /\ UNCHANGED <<credentialTypes, userCredentials, bookings, notifications>>
  /\ UNCHANGED others

\* await storage.getPrinterBookings(printerId, startTime, endTime)
GetPrinterBookings(r) ==
  /\ req[r].pc = "getPrinterBookings"
  /\ \E ok \in BOOLEAN :
       LET b == req[r].body
           conflicts == getPrinterBookings(b.printerId, b.startTime, b.endTime)
       IN  req' = [req EXCEPT ![r] =
             IF ~ok THEN Catch(r, "StorageError")
             ELSE IF conflicts # {} THEN Respond(r, 409)
             ELSE [@ EXCEPT !.pc = "createBooking"]]
  /\ UNCHANGED <<credentialTypes, userCredentials, bookings, notifications>>
  /\ UNCHANGED others

\* Mutant: the booking is inserted as active.
bookingRow_active(id, userId, b) ==
  [id |-> id, userId |-> userId, printerId |-> b.printerId,
   startTime |-> b.startTime, endTime |-> b.endTime, duration |-> b.duration,
   status |-> "active", plaConfirmed |-> b.plaConfirmed]

\* The row createBooking inserts for bookingData.
bookingRow(id, userId, b) ==
  [id |-> id, userId |-> userId, printerId |-> b.printerId,
   startTime |-> b.startTime, endTime |-> b.endTime, duration |-> b.duration,
   status |-> "scheduled", plaConfirmed |-> b.plaConfirmed]

\* Mutant: a failed insert is swallowed (.catch(() => null)) and the
\* handler goes on to the notification.
CreateBooking_swallow(r) ==
  /\ req[r].pc = "createBooking"
  /\ \E ok \in BOOLEAN :
       IF ok
       THEN /\ Len(bookings) < MaxBookings
            /\ LET row == bookingRow(Len(bookings) + 1, req[r].userId, req[r].body)
               IN  /\ bookings' = Append(bookings, row)
                   /\ req' = [req EXCEPT ![r] =
                                [@ EXCEPT !.pc = "createNotification",
                                          !.booking = row]]
       ELSE /\ req' = [req EXCEPT ![r] = [@ EXCEPT !.pc = "createNotification"]]
            /\ UNCHANGED bookings
  /\ UNCHANGED <<credentialTypes, userCredentials, notifications>>
  /\ UNCHANGED others

\* Mutant: the insert also marks the printer as in use.
CreateBooking_inUse(r) ==
  /\ req[r].pc = "createBooking"
  /\ \E ok \in BOOLEAN :
       IF ok
       THEN /\ Len(bookings) < MaxBookings
            /\ LET row == [id |-> Len(bookings) + 1, userId |-> req[r].userId,
                           printerId |-> req[r].body.printerId,
                           startTime |-> req[r].body.startTime,
                           endTime |-> req[r].body.endTime,
                           duration |-> req[r].body.duration,
                           status |-> "scheduled",
                           plaConfirmed |-> req[r].body.plaConfirmed]
               IN  /\ bookings' = Append(bookings, row)
                   /\ req' = [req EXCEPT ![r] =
                                [@ EXCEPT !.pc = "createNotification",
                                          !.booking = row]]
            /\ printers' = [printers EXCEPT
                              ![req[r].body.printerId].status = "in_use"]
       ELSE /\ req' = [req EXCEPT ![r] = [@ EXCEPT !.pc = "done", !.status = 500]]
            /\ UNCHANGED <<bookings, printers>>
  /\ UNCHANGED <<credentialTypes, userCredentials, notifications>>
  /\ UNCHANGED <<users, trainingVideos, userVideoProgress, player>>

\* await storage.createBooking(bookingData)
CreateBooking(r) ==
  /\ req[r].pc = "createBooking"
  /\ \E ok \in BOOLEAN :
       IF ok
       THEN /\ Len(bookings) < MaxBookings
            /\ LET row == bookingRow(Len(bookings) + 1, req[r].userId, req[r].body)
               IN  /\ bookings' = Append(bookings, row)
                   /\ req' = [req EXCEPT ![r] =
                                [@ EXCEPT !.pc = "createNotification",
                                          !.booking = row]]
       ELSE /\ req' = [req EXCEPT ![r] = Catch(r, "StorageError")]
            /\ UNCHANGED bookings
  /\ UNCHANGED <<credentialTypes, userCredentials, notifications>>
  /\ UNCHANGED others

\* The notification the gate creates after createBooking.
confirmation(userId) == [userId |-> userId, title |-> "Booking Confirmed"]

\* await storage.createNotification(...), then res.status(201).json(booking)
CreateNotification(r) ==
  /\ req[r].pc = "createNotification"
  /\ \E ok \in BOOLEAN :
       IF ok
       THEN /\ notifications' = Append(notifications, confirmation(req[r].userId))
            /\ req' = [req EXCEPT ![r] = Respond(r, 201)]
       ELSE /\ req' = [req EXCEPT ![r] = Catch(r, "StorageError")]
            /\ UNCHANGED notifications
  /\ UNCHANGED <<credentialTypes, userCredentials, bookings>>
  /\ UNCHANGED others

\* The response has been sent; the handler's locals are gone.
Finish(r) ==
  /\ req[r].pc = "done"
  /\ req' = [req EXCEPT ![r] = Idle]
  /\ UNCHANGED <<credentialTypes, userCredentials, bookings, notifications>>
  /\ UNCHANGED others

\* ----------------------------------------------------- the ledger's writes

\* storage.addUserCredential: INSERT INTO user_credentials (no uniqueness
\* check), as called by POST /api/credentials/award and
\* POST /api/admin/users/credentials.
AddUserCredential(u, c) ==
  /\ userCredentials[u][c] < MaxCredentialRows
  /\ userCredentials' = [userCredentials EXCEPT ![u][c] = @ + 1]
  /\ UNCHANGED <<credentialTypes, bookings, notifications, req>>
  /\ UNCHANGED others

\* storage.removeUserCredential: DELETE every row (u, c), as called by
\* DELETE /api/admin/users/:userId/credentials/:credentialTypeId.
RemoveUserCredential(u, c) ==
  /\ userCredentials[u][c] > 0
  /\ userCredentials' = [userCredentials EXCEPT ![u][c] = 0]
  /\ UNCHANGED <<credentialTypes, bookings, notifications, req>>
  /\ UNCHANGED others

\* --------------------------------------- requireAdmin and the other routes

\* The routes registered with the requireAdmin middleware that write.
AdminRoutes ==
  {"POST /api/printers", "DELETE /api/printers/:id",
   "PATCH /api/printers/:id/status", "PATCH /api/printers/:id",
   "POST /api/credentials/types", "POST /api/admin/import-users",
   "POST /api/training/videos", "PATCH /api/training/videos/:id",
   "DELETE /api/training/videos/:id", "POST /api/admin/users/credentials",
   "DELETE /api/admin/users/:userId/credentials/:credentialTypeId"}

isUserAdmin(email) == email \in ADMIN_EMAILS

\* A request of user u arrives on a route other than POST /api/bookings,
\* with its parameters and body in b; the routes of AdminRoutes pass
\* through requireAdmin first.
Request(r, u, route, b) ==
  /\ req[r].pc = "idle"
  /\ req' = [req EXCEPT ![r] =
               [Idle EXCEPT !.pc = IF route \in AdminRoutes
                                   THEN "requireAdmin" ELSE "handler",
                            !.route = route, !.userId = u, !.body = b]]
  /\ UNCHANGED <<stores, others>>

\* Mutant: next() is called for every user that exists.
RequireAdmin_anyUser(r) ==
  /\ req[r].pc = "requireAdmin"
  /\ \E ok \in BOOLEAN :
       req' = [req EXCEPT ![r] =
                 IF ~ok THEN [@ EXCEPT !.pc = "done", !.status = 500]
                 ELSE IF req[r].userId \notin DOMAIN users
                 THEN [@ EXCEPT !.pc = "done", !.status = 403]
                 ELSE [@ EXCEPT !.pc = "handler"]]
  /\ UNCHANGED <<stores, others>>

\* requireAdmin: await storage.getUser(sub); 403 unless the user exists
\* and the email is in the allowlist, 500 if the lookup fails, else next().
RequireAdmin(r) ==
  /\ req[r].pc = "requireAdmin"
  /\ \E ok \in BOOLEAN :
       req' = [req EXCEPT ![r] =
                 IF ~ok THEN Respond(r, 500)
                 ELSE IF \/ req[r].userId \notin DOMAIN users
                         \/ ~isUserAdmin(users[req[r].userId].email)
                 THEN Respond(r, 403)
                 ELSE [@ EXCEPT !.pc = "handler"]]
  /\ UNCHANGED <<stores, others>>

\* The position of request r is the handler of the given route.
At(r, route) == req[r].pc = "handler" /\ req[r].route = route

\* POST /api/credentials/award: await storage.addUserCredential
\* ({userId, credentialTypeId}) for the requester.
AwardAddUserCredential(r) ==
  /\ At(r, "POST /api/credentials/award")
  /\ \E ok \in BOOLEAN :
       IF ok
       THEN /\ userCredentials[req[r].userId][req[r].body.credentialTypeId]
                 < MaxCredentialRows
            /\ userCredentials' =
                 [userCredentials EXCEPT
                    ![req[r].userId][req[r].body.credentialTypeId] = @ + 1]
            /\ req' = [req EXCEPT ![r] = [@ EXCEPT !.pc = "getCredentialTypes"]]
       ELSE /\ req' = [req EXCEPT ![r] = Respond(r, 500)]
            /\ UNCHANGED userCredentials
  /\ UNCHANGED <<credentialTypes, bookings, notifications>>
  /\ UNCHANGED others

\* POST /api/credentials/award: await storage.getCredentialTypes() and
\* the lookup of the awarded type's name.
AwardGetCredentialTypes(r) ==
  /\ req[r].route = "POST /api/credentials/award"
  /\ req[r].pc = "getCredentialTypes"
  /\ \E ok \in BOOLEAN :
       req' = [req EXCEPT ![r] =
                 IF ok THEN [@ EXCEPT !.pc = "createNotification"]
                 ELSE Respond(r, 500)]
  /\ UNCHANGED <<stores, others>>

\* POST /api/credentials/award: await storage.createNotification
\* ("Credential Earned"), then 201.
AwardCreateNotification(r) ==
  /\ req[r].route = "POST /api/credentials/award"
  /\ req[r].pc = "createNotification"
  /\ \E ok \in BOOLEAN :
       IF ok
       THEN /\ Len(notifications) < MaxNotifications
            /\ notifications' =
                 Append(notifications,
                        [userId |-> req[r].userId, title |-> "Credential Earned"])
            /\ req' = [req EXCEPT ![r] = Respond(r, 201)]
       ELSE /\ req' = [req EXCEPT ![r] = Respond(r, 500)]
            /\ UNCHANGED notifications
  /\ UNCHANGED <<credentialTypes, userCredentials, bookings>>
  /\ UNCHANGED others

\* POST /api/admin/users/credentials: storage.addUserCredential for the
\* user and type of the body.
AdminAddUserCredential(r) ==
  /\ At(r, "POST /api/admin/users/credentials")
  /\ \E ok \in BOOLEAN :
       IF ok
       THEN /\ userCredentials[req[r].body.userId][req[r].body.credentialTypeId]
                 < MaxCredentialRows
            /\ userCredentials' =
                 [userCredentials EXCEPT
                    ![req[r].body.userId][req[r].body.credentialTypeId] = @ + 1]
            /\ req' = [req EXCEPT ![r] = Respond(r, 201)]
       ELSE /\ req' = [req EXCEPT ![r] = Respond(r, 500)]
            /\ UNCHANGED userCredentials
  /\ UNCHANGED <<credentialTypes, bookings, notifications>>
  /\ UNCHANGED others

\* Mutant: the revoke deletes one row of the pair.
AdminRemoveUserCredential_oneRow(r) ==
  /\ req[r].pc = "handler"
  /\ req[r].route = "DELETE /api/admin/users/:userId/credentials/:credentialTypeId"
  /\ \E ok \in BOOLEAN :
       IF ok
       THEN /\ userCredentials' =
                 [userCredentials EXCEPT
                    ![req[r].body.userId][req[r].body.credentialTypeId] =
                       IF @ > 0 THEN @ - 1 ELSE 0]
            /\ req' = [req EXCEPT ![r] = [@ EXCEPT !.pc = "done", !.status = 200]]
       ELSE /\ req' = [req EXCEPT ![r] = [@ EXCEPT !.pc = "done", !.status = 500]]
            /\ UNCHANGED userCredentials
  /\ UNCHANGED <<credentialTypes, bookings, notifications>>
  /\ UNCHANGED others

\* DELETE /api/admin/users/:userId/credentials/:credentialTypeId:
\* storage.removeUserCredential deletes every row of the pair.
AdminRemoveUserCredential(r) ==
  /\ At(r, "DELETE /api/admin/users/:userId/credentials/:credentialTypeId")
  /\ \E ok \in BOOLEAN :
       IF ok
       THEN /\ userCredentials' =
                 [userCredentials EXCEPT
                    ![req[r].body.userId][req[r].body.credentialTypeId] = 0]
            /\ req' = [req EXCEPT ![r] = Respond(r, 200)]
       ELSE /\ req' = [req EXCEPT ![r] = Respond(r, 500)]
            /\ UNCHANGED userCredentials
  /\ UNCHANGED <<credentialTypes, bookings, notifications>>
  /\ UNCHANGED others

\* A deleted row of the printers table and of the training_videos table:
\* the serial id of a deleted row is not given again.
NoPrinter == [status |-> "", location |-> ""]
NoVideo == [credentialTypeId |-> 0, order |-> 0]

\* db.update(table).set(updates).where(eq(table.id, id)): the columns
\* named in updates are overwritten in the row with that id, if any.
setColumns(table, id, updates, deleted) ==
  [i \in DOMAIN table |->
     IF i = id /\ table[i] # deleted
     THEN [f \in DOMAIN table[i] |->
             IF f \in DOMAIN updates THEN updates[f] ELSE table[i][f]]
     ELSE table[i]]

\* PATCH /api/bookings/:id, for any authenticated user:
\* storage.updateBooking(id, req.body), no check of the owner, of the
\* columns or of conflicts.
UpdateBooking(r) ==
  /\ At(r, "PATCH /api/bookings/:id")
  /\ \E ok \in BOOLEAN :
       IF ok
       THEN /\ bookings' = setColumns(bookings, req[r].body.id,
                                      req[r].body.updates, NoBooking)
            /\ req' = [req EXCEPT ![r] = Respond(r, 200)]
       ELSE /\ req' = [req EXCEPT ![r] = Respond(r, 500)]
            /\ UNCHANGED bookings
  /\ UNCHANGED <<credentialTypes, userCredentials, notifications>>
  /\ UNCHANGED others

\* PATCH /api/printers/:id/status: storage.updatePrinterStatus(id, status)
UpdatePrinterStatus(r) ==
  /\ At(r, "PATCH /api/printers/:id/status")
  /\ \E ok \in BOOLEAN :
       IF ok
       THEN /\ printers' = setColumns(printers, req[r].body.id,
                                      [status |-> req[r].body.status], NoPrinter)
            /\ req' = [req EXCEPT ![r] = Respond(r, 200)]
       ELSE /\ req' = [req EXCEPT ![r] = Respond(r, 500)]
            /\ UNCHANGED printers
  /\ UNCHANGED <<stores, users, trainingVideos, userVideoProgress, player>>

\* PATCH /api/printers/:id: storage.updatePrinter(id, req.body)
UpdatePrinter(r) ==
  /\ At(r, "PATCH /api/printers/:id")
  /\ \E ok \in BOOLEAN :
       IF ok
       THEN /\ printers' = setColumns(printers, req[r].body.id,
                                      req[r].body.updates, NoPrinter)
            /\ req' = [req EXCEPT ![r] = Respond(r, 200)]
       ELSE /\ req' = [req EXCEPT ![r] = Respond(r, 500)]
            /\ UNCHANGED printers
  /\ UNCHANGED <<stores, users, trainingVideos, userVideoProgress, player>>

\* POST /api/printers: insertPrinterSchema.parse, storage.createPrinter;
\* the status column defaults to "available".
CreatePrinter(r) ==
  /\ At(r, "POST /api/printers")
  /\ \E ok \in BOOLEAN :
       IF ok
       THEN /\ Len(printers) < MaxRows
            /\ printers' = Append(printers, [status |-> "available",
                                             location |-> req[r].body.location])
            /\ req' = [req EXCEPT ![r] = Respond(r, 201)]
       ELSE /\ req' = [req EXCEPT ![r] = Respond(r, 500)]
            /\ UNCHANGED printers
  /\ UNCHANGED <<stores, users, trainingVideos, userVideoProgress, player>>

\* DELETE /api/printers/:id: storage.deletePrinter(id); the bookings of
\* the printer go with it (printer_id ... onDelete: "cascade").
DeletePrinter(r) ==
  /\ At(r, "DELETE /api/printers/:id")
  /\ \E ok \in BOOLEAN :
       IF ok
       THEN /\ printers' = [i \in DOMAIN printers |->
                              IF i = req[r].body.id THEN NoPrinter
                              ELSE printers[i]]
            /\ bookings' = [i \in DOMAIN bookings |->
                              IF bookings[i].printerId = req[r].body.id
                              THEN NoBooking ELSE bookings[i]]
            /\ req' = [req EXCEPT ![r] = Respond(r, 200)]
       ELSE /\ req' = [req EXCEPT ![r] = Respond(r, 500)]
            /\ UNCHANGED <<printers, bookings>>
  /\ UNCHANGED <<credentialTypes, userCredentials, notifications>>
  /\ UNCHANGED <<users, trainingVideos, userVideoProgress, player>>

\* POST /api/credentials/types: insertCredentialTypeSchema.parse,
\* storage.createCredentialType; the insert fails (500) when the unique
\* name exists.
CreateCredentialType(r) ==
  /\ At(r, "POST /api/credentials/types")
  /\ \E ok \in BOOLEAN :
       IF ok /\ ~\E i \in DOMAIN credentialTypes :
                   credentialTypes[i].name = req[r].body.name
       THEN /\ Len(credentialTypes) < MaxRows
            /\ credentialTypes' =
                 Append(credentialTypes,
                        [id |-> Len(credentialTypes) + 1,
                         name |-> req[r].body.name,
                         isRequired |-> req[r].body.isRequired])
            /\ req' = [req EXCEPT ![r] = Respond(r, 201)]
       ELSE /\ req' = [req EXCEPT ![r] = Respond(r, 500)]
            /\ UNCHANGED credentialTypes
  /\ UNCHANGED <<userCredentials, bookings, notifications>>
  /\ UNCHANGED others

\* POST /api/training/videos (the first of the two registrations answers):
\* insertTrainingVideoSchema.parse, storage.createTrainingVideo.
CreateTrainingVideo(r) ==
  /\ At(r, "POST /api/training/videos")
  /\ \E ok \in BOOLEAN :
       IF ok
       THEN /\ Len(trainingVideos) < MaxRows
            /\ trainingVideos' =
                 Append(trainingVideos,
                        [credentialTypeId |-> req[r].body.credentialTypeId,
                         order |-> 0])
            /\ req' = [req EXCEPT ![r] = Respond(r, 201)]
       ELSE /\ req' = [req EXCEPT ![r] = Respond(r, 500)]
            /\ UNCHANGED trainingVideos
  /\ UNCHANGED <<stores, users, printers, userVideoProgress, player>>

\* PATCH /api/training/videos/:id: storage.updateTrainingVideo(id, req.body)
UpdateTrainingVideo(r) ==
  /\ At(r, "PATCH /api/training/videos/:id")
  /\ \E ok \in BOOLEAN :
       IF ok
       THEN /\ trainingVideos' = setColumns(trainingVideos, req[r].body.id,
                                            req[r].body.updates, NoVideo)
            /\ req' = [req EXCEPT ![r] = Respond(r, 200)]
       ELSE /\ req' = [req EXCEPT ![r] = Respond(r, 500)]
            /\ UNCHANGED trainingVideos
  /\ UNCHANGED <<stores, users, printers, userVideoProgress, player>>

\* DELETE /api/training/videos/:id: storage.deleteTrainingVideo(id); the
\* progress rows of the video go with it (onDelete: "cascade"); 204.
DeleteTrainingVideo(r) ==
  /\ At(r, "DELETE /api/training/videos/:id")
  /\ \E ok \in BOOLEAN :
       IF ok
       THEN /\ trainingVideos' = [i \in DOMAIN trainingVideos |->
                                    IF i = req[r].body.id THEN NoVideo
                                    ELSE trainingVideos[i]]
            /\ userVideoProgress' =
                 {row \in userVideoProgress : row.videoId # req[r].body.id}
            /\ req' = [req EXCEPT ![r] = Respond(r, 204)]
       ELSE /\ req' = [req EXCEPT ![r] = Respond(r, 500)]
            /\ UNCHANGED <<trainingVideos, userVideoProgress>>
  /\ UNCHANGED <<stores, users, printers, player>>

\* POST /api/training/progress, for any authenticated user:
\* storage.updateVideoProgress({...req.body, userId}) inserts the row of
\* (userId, videoId) or overwrites its completed column.
UpdateVideoProgress(r) ==
  /\ At(r, "POST /api/training/progress")
  /\ \E ok \in BOOLEAN :
       IF ok
       THEN /\ userVideoProgress' =
                 {row \in userVideoProgress :
                    ~(row.userId = req[r].userId
                        /\ row.videoId = req[r].body.videoId)}
                 \cup {[userId |-> req[r].userId,
                        videoId |-> req[r].body.videoId,
                        completed |-> req[r].body.completed]}
            /\ req' = [req EXCEPT ![r] = Respond(r, 200)]
       ELSE /\ req' = [req EXCEPT ![r] = Respond(r, 500)]
            /\ UNCHANGED userVideoProgress
  /\ UNCHANGED <<stores, users, printers, trainingVideos, player>>

\* The names the import looks up, by their rank in name order:
\* "3D Printing Basics" sorts before "Makerspace Orientation".
PrintingBasics == 1
Orientation == 2

\* One-row CSV files: the email and the two credential columns.
ImportRows == [email : {"guest@makerspace"}, orientation : BOOLEAN,
               printingBasics : BOOLEAN]

\* storage.createCredentialType(...).catch(() => null): the insert fails,
\* and is ignored, when the unique name exists.
ensureCredentialType(table, name) ==
  IF \E i \in DOMAIN table : table[i].name = name THEN table
  ELSE Append(table, [id |-> Len(table) + 1, name |-> name, isRequired |-> TRUE])

\* credentialTypes.find(ct => ct.name === name)?.id, 0 for undefined.
typeIdOf(table, name) ==
  IF \E i \in DOMAIN table : table[i].name = name
  THEN (CHOOSE row \in Range(table) : row.name = name).id
  ELSE 0

\* storage.upsertUser: insert, or update on a conflict of the id.
upsertUser(id, email) ==
  [u \in DOMAIN users \cup {id} |->
     IF u = id THEN [email |-> email] ELSE users[u]]

\* POST /api/admin/import-users for a one-row file: both credential types
\* are ensured, then the row's user is upserted as csv_<email> and given a
\* credential row for each column set; a failure of the upsert skips the
\* row, a failure of an addUserCredential is ignored, a failure of
\* getCredentialTypes is answered 500.
ImportUsers(r) ==
  /\ At(r, "POST /api/admin/import-users")
  /\ \E ok, upserted \in BOOLEAN, added \in SUBSET {PrintingBasics, Orientation} :
       LET row   == req[r].body
           id    == "csv_" \o row.email
           types == ensureCredentialType(
                      ensureCredentialType(credentialTypes, Orientation),
                      PrintingBasics)
           wanted == {n \in added :
                        /\ typeIdOf(types, n) \in TypeIds
                        /\ IF n = Orientation THEN row.orientation
                                              ELSE row.printingBasics}
           taken == \E u \in DOMAIN users : u # id /\ users[u].email = row.email
       IN  /\ credentialTypes' = types
           /\ IF ok /\ upserted /\ ~taken
              THEN /\ users' = upsertUser(id, row.email)
                   /\ \A n \in wanted :
                        userCredentials[id][typeIdOf(types, n)] < MaxCredentialRows
                   /\ userCredentials' =
                        [userCredentials EXCEPT ![id] =
                           [c \in TypeIds |->
                              IF \E n \in wanted : typeIdOf(types, n) = c
                              THEN @[c] + 1 ELSE @[c]]]
              ELSE UNCHANGED <<users, userCredentials>>
           /\ req' = [req EXCEPT ![r] = Respond(r, IF ok THEN 200 ELSE 500)]
  /\ UNCHANGED <<bookings, notifications>>
  /\ UNCHANGED <<printers, trainingVideos, userVideoProgress, player>>

\* ----------------------------------------------- the per-user GET routes

\* Mutant: the query without where(eq(bookings.userId, userId)).
selectUserBookings_all(table, userId) ==
  LET rows == {table[i] : i \in {j \in DOMAIN table : table[j] # NoBooking}}
  IN  {s \in [1 .. Cardinality(rows) -> rows] :
         /\ \A i, j \in DOMAIN s : i # j => s[i] # s[j]
         /\ \A i, j \in DOMAIN s : i < j => s[i].startTime >= s[j].startTime}

\* select().from(bookings).where(eq(bookings.userId, userId))
\* .orderBy(desc(bookings.startTime)) over a bookings table: the answers
\* the database may give, rows of equal startTime in either order.
selectUserBookings(table, userId) ==
  LET rows == {table[i] : i \in {j \in DOMAIN table : table[j].userId = userId}}
  IN  {s \in [1 .. Cardinality(rows) -> rows] :
         /\ \A i, j \in DOMAIN s : i # j => s[i] # s[j]
         /\ \A i, j \in DOMAIN s : i < j => s[i].startTime >= s[j].startTime}

\* storage.getUserBookings(userId)
getUserBookings(userId) == selectUserBookings(bookings, userId)

\* select().from(notifications).where(eq(notifications.userId, userId))
\* .orderBy(desc(notifications.createdAt)) over a notifications table,
\* whose rows are in the order of their creation.
selectUserNotifications(table, userId) ==
  LET mine == {i \in DOMAIN table : table[i].userId = userId}
      nth(k) == CHOOSE i \in mine : Cardinality({j \in mine : j > i}) = k - 1
  IN  [k \in 1 .. Cardinality(mine) |-> table[nth(k)]]

\* storage.getUserNotifications(userId)
getUserNotifications(userId) == selectUserNotifications(notifications, userId)

\* select().from(userCredentials).where(eq(userCredentials.userId, userId))
\* over a ledger: the rows of the user, each with the number of its copies.
selectUserCredentials(ledger, userId) ==
  [row \in {[userId |-> userId, credentialTypeId |-> c] :
              c \in {d \in TypeIds : ledger[userId][d] > 0}} |->
     ledger[userId][row.credentialTypeId]]

\* GET /api/bookings: res.json(await storage.getUserBookings(userId))
ListUserBookings(r) ==
  /\ At(r, "GET /api/bookings")
  /\ \E ok \in BOOLEAN :
       \/ /\ ok
          /\ \E rows \in getUserBookings(req[r].userId) :
               req' = [req EXCEPT ![r] = [Respond(r, 200) EXCEPT !.response = rows]]
       \/ /\ ~ok
          /\ req' = [req EXCEPT ![r] = Respond(r, 500)]
  /\ UNCHANGED <<stores, others>>

\* GET /api/credentials/user: res.json(await storage.getUserCredentials(userId))
ListUserCredentials(r) ==
  /\ At(r, "GET /api/credentials/user")
  /\ \E ok \in BOOLEAN :
       req' = [req EXCEPT ![r] =
                 IF ok
                 THEN [Respond(r, 200) EXCEPT
                         !.response = selectUserCredentials(userCredentials,
                                                            req[r].userId)]
                 ELSE Respond(r, 500)]
  /\ UNCHANGED <<stores, others>>

\* GET /api/notifications: res.json(await storage.getUserNotifications(userId))
ListUserNotifications(r) ==
  /\ At(r, "GET /api/notifications")
  /\ \E ok \in BOOLEAN :
       req' = [req EXCEPT ![r] =
                 IF ok
                 THEN [Respond(r, 200) EXCEPT
                         !.response = getUserNotifications(req[r].userId)]
                 ELSE Respond(r, 500)]
  /\ UNCHANGED <<stores, others>>

\* ------------------------------------------------ the client's VideoPlayer

\* The training list given to the VideoPlayer (videos, indexed from 0) and
\* the length of each video in seconds.
VideoCount == 2
VideoLength == 100
\* The playback positions told apart: the start, half way, 95% and the end.
Points == {0, 50, 95, VideoLength}

\* The tables and requests of the server, which the VideoPlayer's handlers
\* leave alone.
server == <<stores, req, users, printers, trainingVideos, userVideoProgress>>

\* The component as mounted: the useState defaults, the <video> element
\* paused at the start, no progress fetched or posted, no timer pending.
\* completed and onCompleteCalled record what happened: the videos whose
\* watch progress reached 95% or that ended while they were the current
\* video, and whether the onComplete prop has been invoked.
Mounted ==
  [currentVideoIndex |-> 0, isPlaying |-> FALSE, currentTime |-> 0,
   duration |-> 0, watchedDuration |-> 0,
   position |-> 0, paused |-> TRUE, ended |-> FALSE,
   loaded |-> FALSE, posted |-> [i \in 0 .. VideoCount - 1 |-> 0],
   timers |-> {}, completed |-> {}, onCompleteCalled |-> FALSE]

\* getVideoProgress: 0 while the duration is unknown, else the watched
\* share of the duration in percent, at most 100.
getVideoProgress ==
  IF player.duration = 0 THEN 0
  ELSE LET pct == (player.watchedDuration * 100) \div player.duration
       IN  IF pct < 100 THEN pct ELSE 100

\* current >= duration * 0.95, the completion threshold
reaches95(current, duration) == duration > 0 /\ current * 100 >= duration * 95

\* The record of completed videos after the watch progress of the current
\* video became w.
noteProgress(p, w) ==
  IF reaches95(w, p.duration) THEN p.completed \cup {p.currentVideoIndex}
  ELSE p.completed

\* setCurrentVideoIndex(index) followed by the effect on currentVideo.id:
\* the progress query of the new video has no data yet, so watchedDuration
\* becomes 0; currentTime and duration keep their values. Whether the
\* <video> element loads the new <source> (reload) or keeps its media is
\* the browser's choice.
showVideo(p, index, reload) ==
  IF index = p.currentVideoIndex THEN p
  ELSE [p EXCEPT !.currentVideoIndex = index, !.watchedDuration = 0,
                 !.loaded = FALSE,
                 !.position = IF reload THEN 0 ELSE @,
                 !.paused = IF reload THEN TRUE ELSE @,
                 !.ended = IF reload THEN FALSE ELSE @]

\* The <video> element plays on to the next position; at the end it stops
\* and its ended event is queued.
Playback ==
  /\ ~player.paused /\ player.position < VideoLength
  /\ LET next == CHOOSE q \in Points :
                   /\ q > player.position
                   /\ \A o \in Points : o > player.position => q <= o
     IN  player' = [player EXCEPT !.position = next,
                                  !.paused = (next = VideoLength),
                                  !.ended = (next = VideoLength)]
  /\ UNCHANGED server

\* handlePlay: videoRef.current.play(), which starts over from an ended
\* video, and setIsPlaying(true).
handlePlay ==
  /\ ~player.isPlaying
  /\ player' = [player EXCEPT !.isPlaying = TRUE, !.paused = FALSE,
                              !.position = IF @ = VideoLength THEN 0 ELSE @]
  /\ UNCHANGED server

\* handlePause: videoRef.current.pause() and setIsPlaying(false).
handlePause ==
  /\ player.isPlaying
  /\ player' = [player EXCEPT !.isPlaying = FALSE, !.paused = TRUE]
  /\ UNCHANGED server

\* handleLoadedMetadata: setDuration(videoRef.current.duration)
handleLoadedMetadata ==
  /\ player.duration = 0
  /\ player' = [player EXCEPT !.duration = VideoLength]
  /\ UNCHANGED server

\* handleTimeUpdate: setCurrentTime(videoRef.current.currentTime)
handleTimeUpdate ==
  /\ player.currentTime # player.position
  /\ player' = [player EXCEPT !.currentTime = player.position]
  /\ UNCHANGED server

\* The progress query of the current video delivers: the effect sets
\* watchedDuration to the row's watchedDuration (|| 0) and, when that is
\* positive, seeks the element there. The row is the one this player's
\* posts left on the server.
ProgressLoaded ==
  /\ ~player.loaded
  /\ LET w == player.posted[player.currentVideoIndex]
     IN  player' = [player EXCEPT !.loaded = TRUE, !.watchedDuration = w,
                                  !.position = IF w > 0 THEN w ELSE @,
                                  !.completed = noteProgress(player, w)]
  /\ UNCHANGED server

\* The setInterval callback while isPlaying: setCurrentTime(current); when
\* current > watchedDuration, setWatchedDuration(current) and, on a
\* multiple of 10 seconds, updateProgressMutation.mutate(...).
Interval ==
  /\ player.isPlaying
  /\ LET current == player.position
     IN  /\ current # player.currentTime \/ current > player.watchedDuration
         /\ player' =
              IF current > player.watchedDuration
              THEN [player EXCEPT
                      !.currentTime = current, !.watchedDuration = current,
                      !.posted[player.currentVideoIndex] =
                         IF current % 10 = 0 THEN current ELSE @,
                      !.completed = noteProgress(player, current)]
              ELSE [player EXCEPT !.currentTime = current]
  /\ UNCHANGED server

\* handleVideoEnd, on the ended event: setIsPlaying(false), the progress
\* of the current video is posted as completed, and a timer of 2 s is set:
\* setCurrentVideoIndex(currentVideoIndex + 1) with the index of this
\* render, or onComplete() when the current video is the last.
handleVideoEnd ==
  /\ player.ended
  /\ LET i == player.currentVideoIndex
     IN  player' = [player EXCEPT
                      !.ended = FALSE, !.isPlaying = FALSE,
                      !.posted[i] = player.duration,
                      !.completed = @ \cup {i},
                      !.timers = @ \cup
                         {[call |-> IF i < VideoCount - 1
                                    THEN "setCurrentVideoIndex"
                                    ELSE "onComplete",
                           index |-> i]}]
  /\ UNCHANGED server

\* A timer set by handleVideoEnd fires.
Timeout ==
  /\ \E t \in player.timers, reload \in BOOLEAN :
       LET p == [player EXCEPT !.timers = @ \ {t}]
       IN  player' = IF t.call = "onComplete"
                     THEN [p EXCEPT !.onCompleteCalled = TRUE]
                     ELSE showVideo(p, t.index + 1, reload)
  /\ UNCHANGED server

\* goToNextVideo, from the SkipForward button (disabled on the last video)
\* or from the Next Video button (shown before the last video, disabled
\* while getVideoProgress() < 95).
goToNextVideo ==
  /\ player.currentVideoIndex < VideoCount - 1
  /\ \E button \in {"SkipForward", "Next Video"}, reload \in BOOLEAN :
       /\ button = "Next Video" => ~(getVideoProgress < 95)
       /\ player' = [showVideo(player, player.currentVideoIndex + 1, reload)
                       EXCEPT !.isPlaying = FALSE]
  /\ UNCHANGED server

\* goToPreviousVideo, from the SkipBack button (disabled on the first video)
goToPreviousVideo ==
  /\ player.currentVideoIndex > 0
  /\ \E reload \in BOOLEAN :
       player' = [showVideo(player, player.currentVideoIndex - 1, reload)
                    EXCEPT !.isPlaying = FALSE]
  /\ UNCHANGED server

\* A click on an entry of the video list: setCurrentVideoIndex(index)
ClickVideo ==
  /\ \E index \in 0 .. VideoCount - 1, reload \in BOOLEAN :
       /\ index # player.currentVideoIndex
       /\ player' = showVideo(player, index, reload)
  /\ UNCHANGED server

\* The Complete Training button, shown on the last video and disabled
\* while getVideoProgress() < 95: onClick={onComplete}
CompleteTraining ==
  /\ player.currentVideoIndex = VideoCount - 1
  /\ ~(getVideoProgress < 95)
  /\ player' = [player EXCEPT !.onCompleteCalled = TRUE]
  /\ UNCHANGED server

\* -------------------------------------------- the client's Dashboard

\* The rows GET /api/credentials/user answers with, for the credential
\* type ids of a user's rows.
credentialRows(ids) == {[credentialTypeId |-> c] : c \in ids}

\* Mutant: every credential type counts as required.
requiredCredentials_all(types) == DOMAIN types

\* Dashboard: credentialTypes.filter(ct => ct.isRequired), as positions of
\* the answer of GET /api/credentials/types.
requiredCredentials(types) == {i \in DOMAIN types : types[i].isRequired}

\* Dashboard: the required types for which no row of the user has
\* uc.credentialTypeId === required.id.
missingCredentials(types, rows) ==
  {i \in requiredCredentials(types) :
     ~ \E uc \in rows : uc.credentialTypeId = types[i].id}

\* Dashboard: canBook={missingCredentials.length === 0}
canBook(types, rows) == Cardinality(missingCredentials(types, rows)) = 0

\* PrinterCard: isBookable = printer.status === 'available' && canBook;
\* "Book Now" is rendered when isBookable.
isBookable(printer, can) == printer.status = "available" /\ can

\* --------------------------------------------------------- initial states

\* Credential-type tables: two types, the first created always required,
\* created in either name order.
CredentialTables ==
  {<<[id |-> 1, name |-> n, isRequired |-> TRUE],
     [id |-> 2, name |-> 3 - n, isRequired |-> q]>> : n \in Names, q \in BOOLEAN}

\* The seeded tables: the two users who can log in, u1 with the
\* allowlisted email; the two printers, available; one training video for
\* each credential type; no video progress.
SeededTables ==
  /\ users = [u \in Users |->
               [email |-> IF u = "u1" THEN "admin@makerspace"
                                      ELSE "member@makerspace"]]
  /\ printers = [p \in Printers |-> [status |-> "available", location |-> "A"]]
  /\ trainingVideos = [v \in TypeIds |-> [credentialTypeId |-> v, order |-> 0]]
  /\ userVideoProgress = {}
  /\ player = Mounted

EmptyStore ==
  /\ bookings = <<>>
  /\ notifications = <<>>
  /\ req = [r \in Slots |-> Idle]
  /\ SeededTables

\* Both credential types required, every user holds both.
Init ==
  /\ credentialTypes = <<[id |-> 1, name |-> 2, isRequired |-> TRUE],
                         [id |-> 2, name |-> 1, isRequired |-> TRUE]>>
  /\ userCredentials = [u \in UserIds |-> [c \in TypeIds |->
                                               IF u \in Users THEN 1 ELSE 0]]
  /\ EmptyStore

\* Any credential table; u1 holds both types, u2 holds any subset.
InitGate ==
  /\ credentialTypes \in CredentialTables
  /\ userCredentials \in
       {[u \in UserIds |-> [c \in TypeIds |->
            IF u = "u1" \/ (u = "u2" /\ c \in s) THEN 1 ELSE 0]] :
          s \in SUBSET TypeIds}
  /\ EmptyStore

\* Any credential table; nobody holds a credential yet.
InitLedger ==
  /\ credentialTypes \in CredentialTables
  /\ userCredentials = [u \in UserIds |-> [c \in TypeIds |-> 0]]
  /\ EmptyStore

\* Both credential types required; nobody holds a credential yet.
InitNone ==
  /\ credentialTypes = <<[id |-> 1, name |-> 2, isRequired |-> TRUE],
                         [id |-> 2, name |-> 1, isRequired |-> TRUE]>>
  /\ userCredentials = [u \in UserIds |-> [c \in TypeIds |-> 0]]
  /\ EmptyStore

\* The values of printers.status the client tells apart.
PrinterStatuses == {"available", "in_use", "maintenance", "offline"}

\* As InitGate, with printer 1 in any status.
InitDashboard ==
  /\ credentialTypes \in CredentialTables
  /\ userCredentials \in
       {[u \in UserIds |-> [c \in TypeIds |->
            IF u = "u1" \/ (u = "u2" /\ c \in s) THEN 1 ELSE 0]] :
          s \in SUBSET TypeIds}
  /\ bookings = <<>>
  /\ notifications = <<>>
  /\ req = [r \in Slots |-> Idle]
  /\ users = [u \in Users |->
               [email |-> IF u = "u1" THEN "admin@makerspace"
                                      ELSE "member@makerspace"]]
  /\ printers \in {[p \in Printers |->
                      [status |-> IF p = 1 THEN st ELSE "available",
                       location |-> "A"]] : st \in PrinterStatuses}
  /\ trainingVideos = [v \in TypeIds |-> [credentialTypeId |-> v, order |-> 0]]
  /\ userVideoProgress = {}
  /\ player = Mounted

Step(r) ==
  \/ GetUserCredentials(r)
  \/ GetCredentialTypes(r)
  \/ GetPrinterBookings(r)
  \/ CreateBooking(r)
  \/ CreateNotification(r)
  \/ Finish(r)

\* Concurrent requests: the steps of the requests interleave.
Next ==
  \E r \in Slots :
    \/ \E u \in Users, b \in RaceBodies : Arrive(r, u, b)
    \/ Step(r)

Spec == Init /\ [][Next]_vars

\* Requests one at a time: each request completes before the next arrives.
NextSeq ==
  \/ \E b \in SeqBodies : Arrive(1, "u1", b)
  \/ Step(1)

SpecSeq == Init /\ [][NextSeq]_vars

\* Requests one at a time over every ledger, durations and confirmations.
NextGate ==
  \/ \E u \in Users, b \in GateBodies : Arrive(1, u, b)
  \/ Step(1)

SpecGate == InitGate /\ [][NextGate]_vars

\* One request at a time while credentials are granted and revoked.
NextLedger ==
  \/ \E u \in Users, b \in LedgerBodies : Arrive(1, u, b)
  \/ Step(1)
  \/ \E u \in Users, c \in TypeIds : AddUserCredential(u, c)
  \/ \E u \in Users, c \in TypeIds : RemoveUserCredential(u, c)

SpecLedger == InitLedger /\ [][NextLedger]_vars

\* Requests one at a time whose startTime may be no date.
NextOutcome ==
  \/ \E u \in Users, b \in OutcomeBodies : Arrive(1, u, b)
  \/ Step(1)

SpecOutcome == InitGate /\ [][NextOutcome]_vars

\* The requests that write the credential ledger, one at a time: a user
\* awards a credential to themself; a user asks to grant or to revoke a
\* credential of a user, or to import a CSV file.
NextCredentials ==
  \/ \E u \in Users, c \in TypeIds :
       Request(1, u, "POST /api/credentials/award", [credentialTypeId |-> c])
  \/ \E u, t \in Users, c \in TypeIds :
       Request(1, u, "POST /api/admin/users/credentials",
               [userId |-> t, credentialTypeId |-> c])
  \/ \E u, t \in Users, c \in TypeIds :
       Request(1, u, "DELETE /api/admin/users/:userId/credentials/:credentialTypeId",
               [userId |-> t, credentialTypeId |-> c])
  \/ \E u \in Users, row \in ImportRows :
       Request(1, u, "POST /api/admin/import-users", row)
  \/ RequireAdmin(1)
  \/ AwardAddUserCredential(1)
  \/ AwardGetCredentialTypes(1)
  \/ AwardCreateNotification(1)
  \/ AdminAddUserCredential(1)
  \/ AdminRemoveUserCredential(1)
  \/ ImportUsers(1)
  \/ Finish(1)

SpecCredentials == InitNone /\ [][NextCredentials]_vars

\* Bookings are made and patched, and printers are set to a status, one
\* request at a time, by either user.
NextPatch ==
  \/ \E u \in Users, b \in PrinterBodies : Arrive(1, u, b)
  \/ Step(1)
  \/ \E u \in Users, i \in 1 .. MaxBookings, up \in BookingUpdates :
       Request(1, u, "PATCH /api/bookings/:id", [id |-> i, updates |-> up])
  \/ UpdateBooking(1)
  \/ \E u \in Users, p \in Printers :
       Request(1, u, "PATCH /api/printers/:id/status",
               [id |-> p, status |-> "maintenance"])
  \/ \E u \in Users, p \in Printers, up \in PrinterUpdates :
       Request(1, u, "PATCH /api/printers/:id", [id |-> p, updates |-> up])
  \/ RequireAdmin(1)
  \/ UpdatePrinterStatus(1)
  \/ UpdatePrinter(1)

SpecPatch == Init /\ [][NextPatch]_vars

\* The requests of u2, whose email is not in the allowlist, on the routes
\* of training: a progress report for a video, and the award of a
\* credential to oneself.
NextMember ==
  \/ \E v \in DOMAIN trainingVideos, done \in BOOLEAN :
       Request(1, "u2", "POST /api/training/progress",
               [videoId |-> v, completed |-> done])
  \/ \E c \in TypeIds :
       Request(1, "u2", "POST /api/credentials/award", [credentialTypeId |-> c])
  \/ UpdateVideoProgress(1)
  \/ AwardAddUserCredential(1)
  \/ AwardGetCredentialTypes(1)
  \/ AwardCreateNotification(1)
  \/ Finish(1)

SpecMember == InitNone /\ [][NextMember]_vars

\* The management requests, one at a time, each sent by either user.
NextAdmin ==
  \/ \E u \in Users : Request(1, u, "POST /api/printers", [location |-> "B"])
  \/ \E u \in Users : Request(1, u, "DELETE /api/printers/:id", [id |-> 1])
  \/ \E u \in Users :
       Request(1, u, "PATCH /api/printers/:id/status",
               [id |-> 2, status |-> "maintenance"])
  \/ \E u \in Users, up \in PrinterUpdates :
       Request(1, u, "PATCH /api/printers/:id", [id |-> 2, updates |-> up])
  \/ \E u \in Users :
       Request(1, u, "POST /api/credentials/types",
               [name |-> Len(credentialTypes) + 1, isRequired |-> FALSE])
  \/ \E u \in Users :
       Request(1, u, "POST /api/training/videos", [credentialTypeId |-> 1])
  \/ \E u \in Users :
       Request(1, u, "PATCH /api/training/videos/:id",
               [id |-> 1, updates |-> [order |-> 1]])
  \/ \E u \in Users :
       Request(1, u, "DELETE /api/training/videos/:id", [id |-> 2])
  \/ \E u \in Users :
       Request(1, u, "POST /api/admin/users/credentials",
               [userId |-> "u2", credentialTypeId |-> 1])
  \/ \E u \in Users :
       Request(1, u, "DELETE /api/admin/users/:userId/credentials/:credentialTypeId",
               [userId |-> "u2", credentialTypeId |-> 1])
  \/ \E u \in Users :
       Request(1, u, "POST /api/admin/import-users",
               [email |-> "guest@makerspace", orientation |-> TRUE,
                printingBasics |-> FALSE])
  \/ RequireAdmin(1)
  \/ CreatePrinter(1)
  \/ DeletePrinter(1)
  \/ UpdatePrinterStatus(1)
  \/ UpdatePrinter(1)
  \/ CreateCredentialType(1)
  \/ CreateTrainingVideo(1)
  \/ UpdateTrainingVideo(1)
  \/ DeleteTrainingVideo(1)
  \/ AdminAddUserCredential(1)
  \/ AdminRemoveUserCredential(1)
  \/ ImportUsers(1)
  \/ Finish(1)

SpecAdmin == InitNone /\ [][NextAdmin]_vars

\* The steps of the handler of POST /api/bookings up to its answer.
Handle(r) ==
  \/ GetUserCredentials(r)
  \/ GetCredentialTypes(r)
  \/ GetPrinterBookings(r)
  \/ CreateBooking(r)
  \/ CreateNotification(r)

\* A request, and then the identical request again: once slot 1 has been
\* answered, slot 2 submits the same user's same body, any number of times,
\* with no other operation in between.
NextRetry ==
  \/ /\ req[2].pc = "idle"
     /\ \E u \in Users, b \in GateBodies : Arrive(1, u, b)
  \/ Handle(1)
  \/ req[2].pc = "idle" /\ Finish(1)
  \/ req[1].pc = "done" /\ Arrive(2, req[1].userId, req[1].body)
  \/ Step(2)

SpecRetry == InitGate /\ [][NextRetry]_vars

\* Bookings are requested while the administrator routes grant and revoke
\* credentials, one request at a time, each sent by either user.
NextRevoke ==
  \/ \E u \in Users, b \in PrinterBodies : Arrive(1, u, b)
  \/ Step(1)
  \/ \E u, t \in Users, c \in TypeIds :
       Request(1, u, "POST /api/admin/users/credentials",
               [userId |-> t, credentialTypeId |-> c])
  \/ \E u, t \in Users, c \in TypeIds :
       Request(1, u, "DELETE /api/admin/users/:userId/credentials/:credentialTypeId",
               [userId |-> t, credentialTypeId |-> c])
  \/ RequireAdmin(1)
  \/ AdminAddUserCredential(1)
  \/ AdminRemoveUserCredential(1)

SpecRevoke == InitNone /\ [][NextRevoke]_vars

\* The VideoPlayer of one training list, from its mounting: the user's
\* clicks, the <video> element's events and the timers, in any order.
NextPlayer ==
  \/ Playback
  \/ handlePlay
  \/ handlePause
  \/ handleLoadedMetadata
  \/ handleTimeUpdate
  \/ ProgressLoaded
  \/ Interval
  \/ handleVideoEnd
  \/ Timeout
  \/ goToNextVideo
  \/ goToPreviousVideo
  \/ ClickVideo
  \/ CompleteTraining

SpecPlayer == InitNone /\ [][NextPlayer]_vars

\* Requests for printer 1, one at a time, whatever the status of the
\* printer and the ledger.
NextDashboard ==
  \/ \E u \in Users, b \in GateBodies : Arrive(1, u, b)
  \/ Step(1)

SpecDashboard == InitDashboard /\ [][NextDashboard]_vars

\* A booking request of u2 in one slot while, in the other slot, u1 sends
\* grants and revokes of u2's credentials: the steps of the two interleave.
NextConcurrentRevoke ==
  \/ \E b \in LedgerBodies : Arrive(1, "u2", b)
  \/ Step(1)
  \/ \E c \in TypeIds :
       Request(2, "u1", "POST /api/admin/users/credentials",
               [userId |-> "u2", credentialTypeId |-> c])
  \/ \E c \in TypeIds :
       Request(2, "u1", "DELETE /api/admin/users/:userId/credentials/:credentialTypeId",
               [userId |-> "u2", credentialTypeId |-> c])
  \/ RequireAdmin(2)
  \/ AdminAddUserCredential(2)
  \/ AdminRemoveUserCredential(2)
  \/ Finish(2)

SpecConcurrentRevoke == Init /\ [][NextConcurrentRevoke]_vars

\* Bookings are made through the gate and moved through
\* PATCH /api/bookings/:id, one request at a time.
NextMove ==
  \/ \E b \in MoveBodies : Arrive(1, "u1", b)
  \/ Step(1)
  \/ \E i \in 1 .. MaxBookings, up \in MoveUpdates :
       Request(1, "u1", "PATCH /api/bookings/:id", [id |-> i, updates |-> up])
  \/ UpdateBooking(1)

SpecMove == Init /\ [][NextMove]_vars

\* Bookings are made by either user, with any userId in the body, and
\* each user reads their own bookings, credentials and notifications, one
\* request at a time; the administrator revokes and grants credentials.
NextRead ==
  \/ \E u \in Users, b \in ForgedBodies : Arrive(1, u, b)
  \/ Step(1)
  \/ \E u \in Users : Request(1, u, "GET /api/bookings", NoBody)
  \/ \E u \in Users : Request(1, u, "GET /api/credentials/user", NoBody)
  \/ \E u \in Users : Request(1, u, "GET /api/notifications", NoBody)
  \/ ListUserBookings(1)
  \/ ListUserCredentials(1)
  \/ ListUserNotifications(1)
  \/ \E t \in Users :
       Request(1, "u1", "DELETE /api/admin/users/:userId/credentials/:credentialTypeId",
               [userId |-> t, credentialTypeId |-> 1])
  \/ RequireAdmin(1)
  \/ AdminRemoveUserCredential(1)

SpecRead == Init /\ [][NextRead]_vars

\* ======================================================== the claims

\* Two windows overlap under the half-open rule: e > s' and s < e'.
Overlaps(a, b) == a.endTime > b.startTime /\ a.startTime < b.endTime

\* Two windows conflict under the inclusive rule: e >= s' and s <= e'.
Touches(a, b) == a.endTime >= b.startTime /\ a.startTime <= b.endTime

\* A window with startTime < endTime.
Proper(w) == w.startTime < w.endTime

Done(r) == req[r].pc = "done"

\* C1: under concurrent requests no two persisted bookings of the same
\* printer have overlapping windows (the check-then-act race is closed).
C1_RaceClosed ==
  \A i, j \in DOMAIN bookings :
    (i # j /\ bookings[i].printerId = bookings[j].printerId)
      => ~Overlaps(bookings[i], bookings[j])

\* C2: after requests executed one at a time from an empty store, no two
\* persisted bookings of the same printer have overlapping windows.
C2_SequentialNonOverlap ==
  \A j \in DOMAIN bookings : \A i \in 1 .. j - 1 :
    bookings[i].printerId = bookings[j].printerId
      => ~Overlaps(bookings[i], bookings[j])

\* C2 witness: two bookings with non-empty windows on the same printer.
C2_Witness ==
  /\ Len(bookings) >= 2
  /\ bookings[1].printerId = bookings[2].printerId
  /\ Proper(bookings[1])
  /\ Proper(bookings[2])

\* C3, as stated (for non-empty windows): the gate answers 409 iff some
\* booking of the printer overlaps the candidate under the half-open rule,
\* so a candidate that starts where a booking ends is let through.
C3_HalfOpenConflict ==
  \A r \in Slots :
    LET hit == \E i \in DOMAIN bookings :
                 /\ bookings[i].printerId = req[r].body.printerId
                 /\ Overlaps(bookings[i], req[r].body)
    IN  (Proper(req[r].body) /\ \A i \in DOMAIN bookings : Proper(bookings[i])) =>
          /\ (Done(r) /\ req[r].status = 409) => hit
          /\ req[r].pc = "createBooking" => ~hit

\* C3, amended: the gate answers 409 iff some booking of the printer
\* meets the candidate under the inclusive rule (endTime >= start and
\* startTime <= end), so a candidate that only touches a booking at an
\* endpoint is rejected.
C3_InclusiveConflict ==
  \A r \in Slots :
    LET hit == \E i \in DOMAIN bookings :
                 /\ bookings[i].printerId = req[r].body.printerId
                 /\ Touches(bookings[i], req[r].body)
    IN  /\ (Done(r) /\ req[r].status = 409) => hit
        /\ req[r].pc = "createBooking" => ~hit

\* C3 witness: a candidate starting exactly where the only booking of the
\* printer ends is answered 409.
C3_Witness ==
  \E r \in Slots :
    /\ Done(r) /\ req[r].status = 409
    /\ Proper(req[r].body)
    /\ \E i \in DOMAIN bookings :
         /\ bookings[i].printerId = req[r].body.printerId
         /\ Proper(bookings[i])
         /\ bookings[i].endTime = req[r].body.startTime
    /\ \A i \in DOMAIN bookings :
         bookings[i].printerId = req[r].body.printerId
           => ~Overlaps(bookings[i], req[r].body)

\* The duration of request r lies in [15, 480].
DurationOk(r) ==
  req[r].body.duration >= MinDuration /\ req[r].body.duration <= MaxDuration

\* The user of request r lacks a required credential type in the ledger.
LacksRequired(r) ==
  \E t \in Range(credentialTypes) :
    t.isRequired /\ userCredentials[req[r].userId][t.id] = 0

\* A booking other than the one request r created meets r's window.
SlotTaken(r) ==
  \E i \in DOMAIN bookings :
    /\ i # req[r].booking.id
    /\ bookings[i].printerId = req[r].body.printerId
    /\ Touches(bookings[i], req[r].body)

\* C4, as stated: the preconditions are checked in the order duration,
\* plaConfirmed, credentials, conflict, and a request violating several is
\* answered for the first of them in that order.
C4_OrderAsStated ==
  \A r \in Slots :
    (Done(r) /\ req[r].status # 500) =>
      /\ ~DurationOk(r) => req[r].status = 400
      /\ (DurationOk(r) /\ ~req[r].body.plaConfirmed) => req[r].status = 400
      /\ (DurationOk(r) /\ req[r].body.plaConfirmed /\ LacksRequired(r))
           => req[r].status = 403
      /\ (DurationOk(r) /\ req[r].body.plaConfirmed /\ ~LacksRequired(r)
            /\ SlotTaken(r)) => req[r].status = 409

\* C4, amended: the gate checks (1) every required credential is held,
\* (2) duration in [15, 480], (3) no conflicting booking, in this order; a
\* request is answered 403, 400, 409 for the first of them it violates and
\* 201 when it violates none, whatever its plaConfirmed.
C4_OrderInCode ==
  \A r \in Slots :
    (Done(r) /\ req[r].status # 500) =>
      req[r].status = IF LacksRequired(r) THEN 403
                      ELSE IF ~DurationOk(r) THEN 400
                      ELSE IF SlotTaken(r) THEN 409
                      ELSE 201

\* C4 witness: a request with a duration out of range, by a user lacking a
\* required credential, on a taken slot, is answered 403.
C4_Witness ==
  \E r \in Slots :
    /\ Done(r) /\ req[r].status = 403
    /\ ~DurationOk(r) /\ LacksRequired(r) /\ SlotTaken(r)

\* C5: every persisted booking has plaConfirmed = true (a request with
\* plaConfirmed = false is always rejected).
C5_PlaConfirmed ==
  \A i \in DOMAIN bookings : bookings[i].plaConfirmed = TRUE

\* C6, as stated: a request with a duration out of [15, 480] is answered
\* 400 (storage failures aside) and persists nothing, one with a duration
\* in range is not answered 400, and every persisted booking has a duration
\* in range.
C6_DurationAsStated ==
  /\ \A r \in Slots :
       (Done(r) /\ req[r].status # 500) =>
         /\ ~DurationOk(r) => (req[r].status = 400 /\ req[r].booking = NoBooking)
         /\ DurationOk(r) => req[r].status # 400
  /\ \A i \in DOMAIN bookings :
       bookings[i].duration >= MinDuration /\ bookings[i].duration <= MaxDuration

\* C6, amended: a request with a duration out of [15, 480] persists nothing
\* and, unless a storage call fails (500), is answered 403 when the user
\* lacks a required credential and 400 otherwise; a request with a duration
\* in range is never answered 400; every persisted booking has a duration
\* in range.
C6_DurationValidated ==
  /\ \A r \in Slots :
       Done(r) =>
         /\ ~DurationOk(r) =>
              /\ req[r].booking = NoBooking
              /\ req[r].status \in {400, 403, 500}
              /\ req[r].status = 400 => ~LacksRequired(r)
              /\ req[r].status = 403 => LacksRequired(r)
         /\ DurationOk(r) => req[r].status # 400
  /\ \A i \in DOMAIN bookings :
       bookings[i].duration >= MinDuration /\ bookings[i].duration <= MaxDuration

\* C6 witness: a booking of 480 minutes is stored and a request of 500
\* minutes is answered 400.
C6_Witness ==
  /\ \E i \in DOMAIN bookings : bookings[i].duration = MaxDuration
  /\ \E r \in Slots :
       Done(r) /\ req[r].status = 400 /\ req[r].body.duration > MaxDuration

\* C8: a 403 names the first required credential type, in name order, that
\* the user does not hold, and never one the user holds.
C8_NamesFirstMissing ==
  \A r \in Slots :
    (Done(r) /\ req[r].status = 403) =>
      LET lacking == {t \in Range(credentialTypes) :
                        t.isRequired /\ t.id \notin req[r].held}
      IN  \E t \in lacking :
            /\ t.name = req[r].missing
            /\ \A o \in lacking : t.name <= o.name

\* C8 witness: both types are required, the user holds only the one
\* listed first, and the 403 names the one listed second.
C8_Witness ==
  \E r \in Slots :
    /\ Done(r) /\ req[r].status = 403
    /\ \A t \in Range(credentialTypes) : t.isRequired
    /\ \E t \in Range(credentialTypes) :
         /\ req[r].held = {t.id}
         /\ t.name < req[r].missing

\* The credentials request r read cover every required credential type.
HeldCoversRequired(r) ==
  \A t \in Range(credentialTypes) : t.isRequired => t.id \in req[r].held

\* C7: credential gating is all-or-nothing: a request gets past the gate,
\* and persists a booking, only if the credentials it read from the ledger
\* cover every required type; a request that read fewer is answered 403
\* (500 if a storage call fails) and persists nothing.
C7_AllOrNothing ==
  \A r \in Slots :
    /\ req[r].pc \in {"getPrinterBookings", "createBooking", "createNotification"}
         => HeldCoversRequired(r)
    /\ req[r].booking # NoBooking => HeldCoversRequired(r)
    /\ (Done(r) /\ req[r].status \in {201, 400, 409}) => HeldCoversRequired(r)
    /\ (Done(r) /\ req[r].status = 403)
         => (~HeldCoversRequired(r) /\ req[r].booking = NoBooking)

\* C7 witness: a user holding one of two required types, but not the
\* other, is answered 403.
C7_Witness ==
  \E r \in Slots :
    /\ Done(r) /\ req[r].status = 403
    /\ req[r].held # {}
    /\ \A t \in Range(credentialTypes) : t.isRequired

\* The rows of a table that belong to user u.
RowsOf(table, u) == {i \in DOMAIN table : table[i].userId = u}

\* C9, the states: a request answered 201 has its booking stored with
\* status "scheduled" and the requester's id; a request about to notify has
\* already stored its booking; each user has at most as many "Booking
\* Confirmed" notifications as bookings.
C9_States ==
  /\ \A r \in Slots :
       /\ (Done(r) /\ req[r].status = 201) =>
            /\ req[r].booking \in Range(bookings)
            /\ req[r].booking.status = "scheduled"
            /\ req[r].booking.userId = req[r].userId
       /\ req[r].pc = "createNotification" => req[r].booking \in Range(bookings)
  /\ \A u \in Users :
       Cardinality(RowsOf(notifications, u)) <= Cardinality(RowsOf(bookings, u))
  /\ \A i \in DOMAIN notifications : notifications[i].title = "Booking Confirmed"

\* C9, the steps: the step that answers 201 adds exactly one notification,
\* addressed to the requester, after the booking row was stored, and no
\* other step adds a notification.
C9_Steps ==
  /\ \A r \in Slots :
       (req[r].pc # "done" /\ req'[r].pc = "done" /\ req'[r].status = 201) =>
         /\ notifications' = Append(notifications,
                               [userId |-> req[r].userId,
                                title |-> "Booking Confirmed"])
         /\ req[r].booking \in Range(bookings)
         /\ bookings' = bookings
  /\ notifications' # notifications =>
       \E r \in Slots :
         /\ req[r].pc = "createNotification"
         /\ req'[r].pc = "done" /\ req'[r].status = 201

\* C9: on success the booking is persisted with status "scheduled" and the
\* requester's id, only then exactly one "Booking Confirmed" notification
\* is created for that user, and none is created for a request that did
\* not persist a booking.
C9_NotifyAfterPersist == []C9_States /\ [][C9_Steps]_vars

\* C9 witness: a request answered 201 while the other user also has a
\* booking and a notification.
C9_Witness ==
  \E r \in Slots :
    /\ Done(r) /\ req[r].status = 201
    /\ Len(notifications) = 2
    /\ notifications[1].userId # notifications[2].userId

\* C10: the two writes are atomic: a request that has ended either wrote
\* both the booking row and its notification (201) or wrote neither.
C10_Atomic ==
  \A r \in Slots :
    Done(r) => (req[r].status = 201 \/ req[r].booking = NoBooking)

\* The status codes of the three domain rejections.
Rejections == {400, 403, 409}


\* The positions of the handler before its first write.
BeforeWrite ==
  {"getUserCredentials", "getCredentialTypes", "getPrinterBookings"}

\* C11, the states: a request answered 400, 403 or 409 has created no
\* booking.
C11_States ==
  \A r \in Slots :
    (Done(r) /\ req[r].status \in Rejections) => req[r].booking = NoBooking

\* C11, the steps: a request is rejected only from a position before the
\* first write, it reaches such a position only from another one or on
\* arrival, and each of its steps from there leaves the stores unchanged.
C11_Steps ==
  \A r \in Slots :
    /\ (req[r].pc # "done" /\ req'[r].pc = "done"
          /\ req'[r].status \in Rejections) => req[r].pc \in BeforeWrite
    /\ (req'[r].pc \in BeforeWrite /\ req'[r] # req[r])
         => req[r].pc \in BeforeWrite \cup {"idle"}
    /\ (req[r].pc \in BeforeWrite \cup {"idle"} /\ req'[r] # req[r])
         => UNCHANGED stores

\* C11: a request rejected for a precondition failure (400, 403, 409)
\* leaves the booking store, the notification store and the credential
\* ledger unchanged from its arrival to its answer.
C11_RejectionWritesNothing == []C11_States /\ [][C11_Steps]_vars

\* C11 witness: a request is answered 409 while the stores hold a booking
\* and its notification.
C11_Witness ==
  \E r \in Slots :
    /\ Done(r) /\ req[r].status = 409
    /\ Len(bookings) = 1 /\ Len(notifications) = 1

\* C12, the states: when a request was rejected (400, 403, 409) and the
\* identical request has been answered after it, the second answer has the
\* same status code and names the same missing credential, and created no
\* booking; only a storage failure during the second request (500) makes
\* the answers differ.
C12_States ==
  (Done(1) /\ req[1].status \in Rejections /\ Done(2)) =>
    /\ req[2].status \in {req[1].status, 500}
    /\ req[2].status # 500 => req[2].missing = req[1].missing
    /\ req[2].booking = NoBooking

\* C12, the steps: while the identical request runs after a rejection no
\* table changes.
C12_Steps ==
  (Done(1) /\ req[1].status \in Rejections /\ req'[2] # req[2])
    => UNCHANGED <<stores, others>>

\* C12: rejection is idempotent: the identical request submitted again
\* right after a rejection is rejected in the same way and the store is
\* still unchanged.
C12_RejectionIdempotent == []C12_States /\ [][C12_Steps]_vars

\* C12 witness: a request and its repetition are both answered 403 for the
\* same missing credential.
C12_Witness ==
  /\ Done(1) /\ Done(2)
  /\ req[1].status = 403 /\ req[2].status = 403
  /\ req[1].missing = req[2].missing /\ req[1].missing # 0
  /\ req[2].body = req[1].body /\ req[2].userId = req[1].userId

\* C13: every request ends in one of 201 (with the created booking), 400,
\* 403, 409 and 500; a storage failure is answered 500, never 400, 403 or
\* 409, and only a storage failure is answered 500: a request that the
\* gate turns down for its own content is never answered 500.
C13_FiveOutcomes ==
  \A r \in Slots :
    Done(r) =>
      /\ req[r].status \in {201, 400, 403, 409, 500}
      /\ req[r].status = 201 => req[r].booking \in Range(bookings)
      /\ req[r].error = "StorageError" => req[r].status = 500
      /\ req[r].status = 500 => req[r].error = "StorageError"

\* The bookings of printer p, other than the one request r created, whose
\* window meets the window of request r.
MeetingOn(p, r) ==
  {i \in DOMAIN bookings :
     /\ i # req[r].booking.id
     /\ bookings[i].printerId = p
     /\ Touches(bookings[i], req[r].body)}

\* C14: conflicts are per printer: a request for printer P is answered 409
\* only if a booking of P meets its window, and is let through to the
\* insert (and answered 201) exactly when no booking of P does, whatever
\* the bookings of the other printers.
C14_PerPrinter ==
  \A r \in Slots :
    LET P == req[r].body.printerId
    IN  /\ (Done(r) /\ req[r].status = 409) => MeetingOn(P, r) # {}
        /\ (Done(r) /\ req[r].status = 201) => MeetingOn(P, r) = {}
        /\ req[r].pc \in {"createBooking", "createNotification"}
             => MeetingOn(P, r) = {}

\* C14 witness: a request is answered 201 although a booking of the other
\* printer overlaps its window.
C14_Witness ==
  \E r \in Slots :
    /\ Done(r) /\ req[r].status = 201
    /\ Proper(req[r].body)
    /\ \E q \in Printers \ {req[r].body.printerId} :
         \E i \in MeetingOn(q, r) : Overlaps(bookings[i], req[r].body)

\* The minutes between two consecutive instants of Times.
TickMinutes == MinDuration

\* C16: every persisted booking has endTime > startTime and a duration
\* (minutes) equal to the length of its window; a request with
\* endTime <= startTime or with a duration that disagrees with its window
\* persists nothing.
C16_WindowConsistent ==
  \A i \in DOMAIN bookings :
    /\ bookings[i].endTime > bookings[i].startTime
    /\ bookings[i].duration =
         (bookings[i].endTime - bookings[i].startTime) * TickMinutes

\* C15: the ledger holds at most one row for each pair (userId,
\* credentialTypeId), after any sequence of self-awards, admin grants,
\* imports and revocations.
C15_UniquePair ==
  \A u \in UserIds, c \in TypeIds : userCredentials[u][c] <= 1

\* C17, as stated: in every state reachable through the endpoints,
\* PATCH /api/bookings/:id included, every booking has status "scheduled".
C17_AlwaysScheduled ==
  \A i \in DOMAIN bookings : bookings[i].status = "scheduled"

\* C17, amended, the steps: a booking is created with status "scheduled",
\* and the status of a booking changes only in the handler of
\* PATCH /api/bookings/:id for that booking, to the status of its body.
C17_Steps ==
  \A i \in DOMAIN bookings' :
    /\ i \notin DOMAIN bookings => bookings'[i].status = "scheduled"
    /\ (i \in DOMAIN bookings /\ bookings'[i].status # bookings[i].status) =>
         \E r \in Slots :
           /\ At(r, "PATCH /api/bookings/:id")
           /\ req[r].body.id = i
           /\ "status" \in DOMAIN req[r].body.updates
           /\ bookings'[i].status = req[r].body.updates.status

\* C17, amended: Booking.status is "scheduled" when the gate creates the
\* booking; afterwards only PATCH /api/bookings/:id changes it, to whatever
\* status the request carries.
C17_StatusByPatchOnly == [][C17_Steps]_vars

\* C17 witness: after a PATCH answered 200 one booking is cancelled and
\* another is still scheduled.
C17_Witness ==
  /\ \E r \in Slots :
       /\ Done(r) /\ req[r].status = 200
       /\ req[r].route = "PATCH /api/bookings/:id"
  /\ \E i, j \in DOMAIN bookings :
       bookings[i].status = "cancelled" /\ bookings[j].status = "scheduled"

\* The routes an administrator sets a printer's status with.
PrinterStatusRoutes == {"PATCH /api/printers/:id/status", "PATCH /api/printers/:id"}

\* The routes that create and update bookings.
BookingRoutes == {"POST /api/bookings", "PATCH /api/bookings/:id"}

\* C19, the steps: the printers table changes only in the handler of
\* PATCH /api/printers/:id/status or PATCH /api/printers/:id, run for a
\* requester whose email is in the allowlist; every step of a booking
\* request or of a booking update, accepted or rejected, leaves it
\* unchanged.
C19_Steps ==
  /\ printers' # printers =>
       \E r \in Slots :
         /\ req[r].pc = "handler"
         /\ req[r].route \in PrinterStatusRoutes
         /\ isUserAdmin(users[req[r].userId].email)
         /\ req'[r].pc = "done" /\ req'[r].status = 200
  /\ \A r \in Slots :
       (req'[r] # req[r] /\ (req[r].route \in BookingRoutes
                               \/ req'[r].route \in BookingRoutes))
         => printers' = printers

\* C19: Printer.status changes only through an administrator action;
\* submitBooking and booking updates leave every printer's status
\* unchanged.
C19_StatusByAdminOnly == [][C19_Steps]_vars

\* C19 witness: a printer was set to maintenance by the administrator and
\* the other printer, booked and with its booking patched, is still
\* available.
C19_Witness ==
  /\ printers[1].status = "maintenance"
  /\ printers[2].status = "available"
  /\ \E i \in DOMAIN bookings :
       bookings[i].printerId = 2 /\ bookings[i].status = "cancelled"
  /\ \E r \in Slots : Done(r) /\ req[r].status = 409

\* The training videos of credential type c.
VideosOf(c) ==
  {v \in DOMAIN trainingVideos : trainingVideos[v].credentialTypeId = c}

\* User u has completed the training of credential type c: the type has
\* videos and each of them has a progress row of u marked completed.
Trained(u, c) ==
  /\ VideosOf(c) # {}
  /\ \A v \in VideosOf(c) :
       [userId |-> u, videoId |-> v, completed |-> TRUE] \in userVideoProgress

\* C18: a user who is not an administrator, and to whom no administrator
\* granted anything, holds a credential type only if they have completed
\* the training of that type.
C18_TrainedOrGranted ==
  \A c \in TypeIds : userCredentials["u2"][c] > 0 => Trained("u2", c)

\* The tables the management routes write.
managed == <<printers, credentialTypes, userCredentials, trainingVideos, users>>

\* The requester of request r is a user whose email is in the allowlist.
ByAdmin(r) ==
  /\ req[r].userId \in DOMAIN users
  /\ users[req[r].userId].email \in ADMIN_EMAILS

\* C20, the states: the handler of a management route runs only for an
\* administrator, and a management request of anyone else is answered 403
\* (500 when the lookup of the requester fails).
C20_States ==
  \A r \in Slots :
    req[r].route \in AdminRoutes =>
      /\ req[r].pc = "handler" => ByAdmin(r)
      /\ (Done(r) /\ ~ByAdmin(r)) => req[r].status \in {403, 500}

\* C20, the steps: a management request of a requester who is not an
\* administrator is answered at requireAdmin, and no step of it changes a
\* managed table; a managed table changes only in a handler run for an
\* administrator.
C20_Steps ==
  /\ \A r \in Slots :
       (req[r].route \in AdminRoutes /\ ~ByAdmin(r) /\ req'[r] # req[r]) =>
         /\ UNCHANGED <<managed, bookings, notifications, userVideoProgress>>
         /\ req[r].pc = "requireAdmin" =>
              (req'[r].pc = "done" /\ req'[r].status \in {403, 500})
  /\ managed' # managed =>
       \E r \in Slots :
         /\ req[r].pc = "handler" /\ req[r].route \in AdminRoutes
         /\ ByAdmin(r)

\* C20: management operations take effect only for administrators: a
\* request to a management route by a requester whose email is not in the
\* allowlist is answered 403 and leaves the printers, credential types,
\* user credentials, training videos and users unchanged.
C20_AdminOnly == []C20_States /\ [][C20_Steps]_vars

\* C20 witness: the other user's management request is answered 403 in a
\* state where the administrator's requests have created a printer,
\* deleted another and imported a user.
C20_Witness ==
  \E r \in Slots :
    /\ Done(r) /\ req[r].status = 403 /\ req[r].userId = "u2"
    /\ req[r].route = "DELETE /api/printers/:id"
    /\ Len(printers) = 3 /\ printers[1] = NoPrinter
    /\ DOMAIN users # Users

\* The stored bookings of printer p that end at or after s and start at or
\* before e, whatever their status.
StoredMeeting(p, s, e) ==
  {i \in DOMAIN bookings :
     bookings[i].printerId = p /\ ~(bookings[i].endTime < s)
       /\ ~(bookings[i].startTime > e)}

\* C21, the steps: the step of POST /api/bookings that queries the
\* printer's bookings answers 409 exactly when some stored booking of the
\* printer has endTime >= start and startTime <= end, both bounds
\* inclusive and whatever the booking's status, and goes on to the insert
\* exactly when none has (a failure of the query itself is answered 500).
C21_Steps ==
  \A r \in Slots :
    (req[r].route = "POST /api/bookings" /\ req[r].pc = "getPrinterBookings"
       /\ req'[r] # req[r]) =>
      LET found == StoredMeeting(req[r].body.printerId, req[r].body.startTime,
                                 req[r].body.endTime)
      IN  /\ req'[r].pc \in {"done", "createBooking"}
          /\ req'[r].pc = "createBooking" => found = {}
          /\ req'[r].pc = "done" => req'[r].status \in {409, 500}
          /\ (req'[r].pc = "done" /\ req'[r].status = 409) => found # {}
          /\ (req'[r].pc = "done" /\ req'[r].status = 500)
               => req'[r].error = "StorageError"

\* C21: getPrinterBookings returns the bookings of the printer with
\* endTime >= start and startTime <= end, inclusive at both bounds and
\* regardless of status, and the gate answers 409 iff that result is not
\* empty: a candidate that only touches a booking at an endpoint conflicts.
C21_InclusiveAnyStatus == [][C21_Steps]_vars

\* C21 witness: a request is answered 409 when the only booking of its
\* printer is cancelled and starts exactly where the request ends.
C21_Witness ==
  \E r \in Slots :
    /\ Done(r) /\ req[r].status = 409
    /\ \E i \in DOMAIN bookings :
         /\ bookings[i].printerId = req[r].body.printerId
         /\ bookings[i].status = "cancelled"
         /\ bookings[i].startTime = req[r].body.endTime
    /\ \A i \in DOMAIN bookings :
         bookings[i].printerId = req[r].body.printerId
           => (bookings[i].status = "cancelled"
                 /\ ~Overlaps(bookings[i], req[r].body))

\* The route of the administrator's revoke.
RevokeRoute == "DELETE /api/admin/users/:userId/credentials/:credentialTypeId"

\* C22, the states: with requests served one at a time, a booking request
\* is answered from the ledger as it is now: 403 when its user lacks a
\* required credential, and otherwise 409 on a taken slot and 201 on a free
\* one (500 when a storage call fails).
C22_States ==
  \A r \in Slots :
    (Done(r) /\ req[r].route = "POST /api/bookings" /\ req[r].status # 500) =>
      req[r].status = IF LacksRequired(r) THEN 403
                      ELSE IF SlotTaken(r) THEN 409 ELSE 201

\* C22, the steps: the gate reads the user's rows as they are stored at
\* that step; a revoke answered 200 leaves no row of its pair; and the rows
\* of a pair decrease only in the handler of a revoke for that pair.
C22_Steps ==
  /\ \A r \in Slots :
       /\ (req[r].pc = "getUserCredentials" /\ req'[r].pc = "getCredentialTypes")
            => req'[r].held = {c \in TypeIds : userCredentials[req[r].userId][c] > 0}
       /\ (At(r, RevokeRoute) /\ req'[r].pc = "done" /\ req'[r].status = 200)
            => userCredentials'[req[r].body.userId][req[r].body.credentialTypeId] = 0
  /\ \A u \in UserIds, c \in TypeIds :
       userCredentials'[u][c] < userCredentials[u][c] =>
         \E r \in Slots :
           /\ At(r, RevokeRoute)
           /\ req[r].body.userId = u /\ req[r].body.credentialTypeId = c

\* C22: the gate uses the current ledger, without cache or expiry: once a
\* required credential of u is revoked the later booking requests of u are
\* answered 403 until it is granted again, once the last missing required
\* credential is granted the next valid request on a free slot is accepted,
\* and a held credential disappears only by a revoke.
C22_CurrentLedger == []C22_States /\ [][C22_Steps]_vars

\* C22 witness: a user who booked while holding every required credential
\* is answered 403 after one of them was revoked.
C22_Witness ==
  \E r \in Slots :
    /\ Done(r) /\ req[r].route = "POST /api/bookings" /\ req[r].status = 403
    /\ \E i \in DOMAIN bookings : bookings[i].userId = req[r].userId
    /\ \E c \in TypeIds : userCredentials[req[r].userId][c] > 0

\* The videos of the training list.
Videos == 0 .. VideoCount - 1

\* C23: the VideoPlayer invokes onComplete only after every video of the
\* list has been watched to completion (95% of its duration, or to its
\* end), whatever the user does.
C23_OnCompleteAfterAll ==
  player.onCompleteCalled => player.completed = Videos

\* C24, the steps: currentVideoIndex moves from video i to a later video
\* only when the watch progress of video i is at least 95% or video i has
\* ended.
C24_Steps ==
  player'.currentVideoIndex > player.currentVideoIndex =>
    \/ ~(getVideoProgress < 95)
    \/ \E t \in player.timers :
         /\ t.call = "setCurrentVideoIndex"
         /\ t.index = player.currentVideoIndex
         /\ t \notin player'.timers

\* C24: currentVideoIndex stays within 0 .. videos.length - 1 and moves
\* forward from video i only when video i's progress is at least 95% or
\* video i has ended.
C24_ForwardOnlyWhenWatched ==
  [](player.currentVideoIndex \in Videos) /\ [][C24_Steps]_vars

\* C25, the steps: when the server's credential loop decides, on the rows
\* the request read and the credential types as stored, it answers 403
\* exactly when the Dashboard, given the same rows and types, computes
\* canBook = false (a failure of the read itself is answered 500).
C25_Steps ==
  \A r \in Slots :
    (req[r].pc = "getCredentialTypes" /\ req'[r] # req[r]
       /\ req'[r].error # "StorageError") =>
      ((req'[r].pc = "done" /\ req'[r].status = 403)
         <=> ~canBook(getCredentialTypes, credentialRows(req[r].held)))

\* C25, the states: for every user and printer the PrinterCard offers
\* "Book Now" exactly when the printer is available and the user lacks no
\* required credential in the ledger.
C25_States ==
  \A u \in Users, p \in DOMAIN printers :
    isBookable(printers[p],
               canBook(getCredentialTypes,
                       credentialRows(getUserCredentials(u))))
      <=> /\ printers[p].status = "available"
          /\ \A t \in Range(credentialTypes) :
               t.isRequired => userCredentials[u][t.id] > 0

\* C25: on the same snapshot of credential types and user credentials the
\* Dashboard's canBook is true iff the server's credential loop would not
\* answer 403, and "Book Now" is offered only when the printer is also
\* available.
C25_ClientAgreesWithGate == []C25_States /\ [][C25_Steps]_vars

\* C25 witness: a request of a user who holds the required type but not
\* the optional one has passed the credential loop and been answered 201,
\* and the Dashboard of that user has canBook = true but offers no "Book
\* Now" for printer 1, which is not available.
C25_Witness ==
  \E r \in Slots :
    /\ Done(r) /\ req[r].status = 201
    /\ \E t \in Range(credentialTypes) :
         ~t.isRequired /\ userCredentials[req[r].userId][t.id] = 0
    /\ canBook(getCredentialTypes,
               credentialRows(getUserCredentials(req[r].userId)))
    /\ ~isBookable(printers[1], TRUE)

\* C29, the states: whatever the status of the printer, a booking request
\* is answered by its user's credentials, its duration and the bookings of
\* its printer alone (500 when a storage call fails), and an accepted
\* request has persisted the row of its body for its requester.
C29_States ==
  \A r \in Slots :
    (Done(r) /\ req[r].status # 500) =>
      /\ req[r].status = IF LacksRequired(r) THEN 403
                         ELSE IF ~DurationOk(r) THEN 400
                         ELSE IF SlotTaken(r) THEN 409
                         ELSE 201
      /\ req[r].status = 201 =>
           \E i \in DOMAIN bookings :
             bookings[i] = [id |-> i, userId |-> req[r].userId,
                            printerId |-> req[r].body.printerId,
                            startTime |-> req[r].body.startTime,
                            endTime |-> req[r].body.endTime,
                            duration |-> req[r].body.duration,
                            status |-> "scheduled",
                            plaConfirmed |-> req[r].body.plaConfirmed]

\* C29, the steps: a step of a booking request depends on no printer's
\* status: it goes from the query of the printer's bookings to the insert
\* exactly when no booking meets the window, for an available printer as
\* for any other.
C29_Steps ==
  \A r \in Slots :
    (req[r].pc = "getPrinterBookings" /\ req'[r] # req[r]
       /\ req'[r].error # "StorageError") =>
      (req'[r].pc = "createBooking"
         <=> StoredMeeting(req[r].body.printerId, req[r].body.startTime,
                           req[r].body.endTime) = {})

\* C29: the server-side gate does not depend on printer status: the same
\* request has the same outcome and persists the same booking whether the
\* printer is available, in use, in maintenance or offline; only the
\* client's isBookable looks at the status.
C29_StatusIgnored == []C29_States /\ [][C29_Steps]_vars

\* C29 witness: a request for a printer that is offline, for which the
\* client offers no "Book Now", is answered 201 and its booking is stored.
C29_Witness ==
  \E r \in Slots :
    /\ Done(r) /\ req[r].status = 201
    /\ printers[req[r].body.printerId].status = "offline"
    /\ ~isBookable(printers[req[r].body.printerId], TRUE)
    /\ req[r].booking \in Range(bookings)

\* C26, the steps: at the step that writes a booking row the requester
\* holds every required credential in the ledger.
C26_Steps ==
  \A r \in Slots :
    (req[r].pc = "createBooking" /\ Len(bookings') > Len(bookings))
      => ~LacksRequired(r)

\* C26: a booking is never persisted for a user who lacks a required
\* credential at the instant the row is written, even when a revoke
\* interleaves between the gate's credential read and its createBooking.
C26_HeldAtWrite == [][C26_Steps]_vars

\* No two stored bookings of the same printer have overlapping windows.
NonOverlap(table) ==
  \A i, j \in DOMAIN table :
    (i # j /\ table[i] # NoBooking /\ table[i].printerId = table[j].printerId)
      => ~Overlaps(table[i], table[j])

\* C27, the steps: a step of the handler of PATCH /api/bookings/:id taken
\* where no two bookings of a printer overlap ends where none do.
C27_Steps ==
  (NonOverlap(bookings) /\ \E r \in Slots : At(r, "PATCH /api/bookings/:id"))
    => NonOverlap(bookings')

\* C27: PATCH /api/bookings/:id preserves the per-printer non-overlap
\* invariant, whatever printerId, startTime or endTime it writes.
C27_PatchPreservesNonOverlap == [][C27_Steps]_vars

\* C28, the steps: the handler of PATCH /api/bookings/:id, run for a
\* requester v who is no administrator, leaves every booking of another
\* user as it was.
C28_Steps ==
  \A r \in Slots :
    (At(r, "PATCH /api/bookings/:id") /\ ~ByAdmin(r)) =>
      \A i \in DOMAIN bookings :
        bookings[i].userId # req[r].userId => bookings'[i] = bookings[i]

\* C28: a booking is modified only on behalf of its owner: a PATCH
\* /api/bookings/:id of a user who is neither the owner nor an
\* administrator changes nothing of the booking.
C28_OwnerOnly == [][C28_Steps]_vars

\* A table in which only the rows of user u are left.
OwnedRows(table, u) ==
  LET Mine(row) == row.userId = u IN SelectSeq(table, Mine)

\* A ledger in which only the rows of user u are left.
OwnedLedger(ledger, u) ==
  [v \in DOMAIN ledger |->
     [c \in TypeIds |-> IF v = u THEN ledger[v][c] ELSE 0]]

\* C30, the states: an answer 200 of GET /api/bookings, GET
\* /api/credentials/user or GET /api/notifications holds only rows of the
\* requester, and is an answer the same request gets in the state where
\* every row of the other users is removed.
C30_States ==
  \A r \in Slots :
    (Done(r) /\ req[r].status = 200) =>
      LET u == req[r].userId
      IN  /\ req[r].route = "GET /api/bookings" =>
               /\ \A row \in Range(req[r].response) : row.userId = u
               /\ req[r].response \in selectUserBookings(OwnedRows(bookings, u), u)
          /\ req[r].route = "GET /api/notifications" =>
               /\ \A row \in Range(req[r].response) : row.userId = u
               /\ req[r].response =
                    selectUserNotifications(OwnedRows(notifications, u), u)
          /\ req[r].route = "GET /api/credentials/user" =>
               /\ \A row \in DOMAIN req[r].response : row.userId = u
               /\ req[r].response =
                    selectUserCredentials(OwnedLedger(userCredentials, u), u)

\* C30, the steps: the row POST /api/bookings inserts carries the id of
\* the authenticated requester, whatever userId the body carries.
C30_Steps ==
  \A r \in Slots :
    (req[r].pc = "createBooking" /\ Len(bookings') > Len(bookings))
      => bookings'[Len(bookings')].userId = req[r].userId

\* C30: per-user read isolation: the three GET routes answer with rows of
\* the authenticated requester only, so the answer does not depend on the
\* rows of other users; and a booking created through POST /api/bookings
\* carries the requester's id, never a userId of the request body.
C30_ReadIsolation == []C30_States /\ [][C30_Steps]_vars

\* C30 witness: a user reads their bookings and gets their one booking
\* while the table also holds a booking of the other user and each of the
\* two has a notification.
C30_Witness ==
  \E r \in Slots :
    /\ Done(r) /\ req[r].status = 200 /\ req[r].route = "GET /api/bookings"
    /\ Len(req[r].response) = 1
    /\ req[r].response[1].userId = req[r].userId
    /\ \E i \in DOMAIN bookings : bookings[i].userId # req[r].userId
    /\ Len(notifications) = 2

====
